---- MODULE Spec2Model ----
(***************************************************************************)
(* A model of the remote session bridge of adb-visual-manager:             *)
(*   - the session registry (ADBManager) with its device cache, as used    *)
(*     by the UI thread and by the file/app/process load workers;          *)
(*   - the streaming reader (LogcatManager, LogcatStreamWorker and         *)
(*     LogcatController).                                                  *)
(* Threads are modelled at the granularity of the statements that touch    *)
(* shared state: one action per such statement.                            *)
(***************************************************************************)
EXTENDS Integers, Sequences, FiniteSets, TLC

\* ------------------------------------------------------------------ bounds

\* Number of user events (refresh, selection, disconnect) the UI thread of
\* the registry model handles after initialize().
MaxUiEvents == 1

\* Number of changes of the environment: a device attached or gone, the adb
\* server stopped or started.
MaxEnvChanges == 1

\* Number of stream workers the log controller creates.
MaxStreams == 2

\* Number of lines the adb logcat subprocesses print.
MaxLines == 2

\* ------------------------------------------------------------- value space

\* Python's None, for a serial and for a device object.
NoSerial == <<>>
NoDevice == [serial |-> NoSerial]

\* Serials are character sequences, so that `":" in serial' is computed.
UsbSerial == <<"R", "5">>
NetSerial == <<"h", ":", "5">>
Serials == {UsbSerial, NetSerial}

\* A test that every serial passes.
HasColonAlways(serial) == TRUE

\* adbmanager.py:269 / :119  `":" in device_serial'
HasColon(serial) == \E i \in DOMAIN serial : serial[i] = ":"

\* The AdbDevice object handed out by client.devices(): a (client, serial)
\* pair; the client is the single ADBManager.client.
Device(serial) == [serial |-> serial]

Workers == {"file", "app", "proc"}
Threads == {"ui"} \cup Workers
Controllers == <<"terminal", "app", "file", "proc", "logcat", "remote">>

\* -------------------------------------------------------------- variables

VARIABLES
    \* --- environment: the adb server
    adbUp,          \* client.version() answers
    transport,      \* serials client.devices() reports
    envChanges,     \* changes of the environment so far
    \* --- ADBManager
    deviceCache,    \* ADBManager._device_cache : serial -> AdbDevice
    \* --- controllers (UI thread objects)
    mainCurrent,    \* MainController.current_device_serial
    lastSerial,     \* <controller>._last_connected_serial
    shown,          \* serials held by the device panel's combo box
    uiEvents,       \* events the UI thread has taken
    \* --- threads
    thr,            \* per thread: program counter, pending calls, locals
    \* --- LogcatController / LogcatManager / LogcatStreamWorker
    logSerial,      \* LogcatController.current_device_serial
    streamWorker,   \* LogcatController.stream_worker (0 is None)
    stopFlag,       \* LogcatManager._stop_streaming
    wpc,            \* per stream worker: position in run()
    proc,           \* per stream worker: its adb logcat subprocess
    pipe,           \* per stream worker: lines in the subprocess' stdout
    held,           \* per stream worker: the line readline() returned
    sigQueue,       \* queued signals posted to the UI thread
    delivered,      \* what logcat_widget.append_log received, in order
    statusMsg,      \* main_window.set_status_message
    uiPc,           \* UI thread of the log model: position in its handler
    uiCont,         \* the handler that called stop_streaming
    hist,           \* history: lines read, lines emitted, stops returned
    \* --- one call of a FileManager / ProcessManager method
    world,          \* what the device answers to the call's commands
    call            \* the call: its arguments, position, locals and result

regVars == <<adbUp, transport, envChanges, deviceCache, mainCurrent,
             lastSerial, shown, uiEvents, thr>>
logVars == <<logSerial, streamWorker, stopFlag, wpc, proc, pipe, held,
             sigQueue, delivered, statusMsg, uiPc, uiCont, hist>>
callVars == <<world, call>>
vars == <<regVars, logVars, callVars>>

\* ================================================================ registry

envVars == <<adbUp, transport, envChanges>>
uiVars == <<mainCurrent, lastSerial, shown, uiEvents>>

\* A pending call of a thread: get_devices ("GD"), get_device_by_serial
\* followed or not by a shell command ("RES"), disconnect_device ("DISC"),
\* connect_device ("CONN"),
\* the tail of refresh_devices ("RF"), the tail of update_device_dashboard
\* ("DASH") and <controller>.set_device ("SETDEV").
Op(op, c, s, sh) == [op |-> op, c |-> c, s |-> s, sh |-> sh]
MainOp(op, s) == Op(op, "main", s, FALSE)

\* The result of a get_devices call: whether it went through the loop
\* (ok), the serials of the DeviceInfo list it returns, the serials the
\* transport reported, the keys of the cache when it returned, and whether
\* client.devices() was called.
NoResult == [ok |-> FALSE, serials |-> {}, keys |-> {}, queried |-> FALSE]

\* A thread: where it is (pc), the calls it still has to make (todo), and
\* its locals: the devices get_devices still has to go through (devs), the
\* result of its last get_devices (gd), the device get_device_by_serial
\* returned (handle), the serial its shell command is running on (inflight),
\* the get_devices calls its get_device_by_serial made (nDisc), whether an
\* exception ended it (raised), what disconnect_device returned (discOk) and
\* whether it called remote_disconnect (discCalled), what connect_device
\* returned (connOk) and how its remote_connect call ended (connResult:
\* "none" when it made none, else "truthy", "falsy" or "raises").
IdleThread ==
    [pc |-> "ready", todo |-> <<>>, devs |-> {}, gd |-> NoResult,
     handle |-> NoDevice, inflight |-> NoSerial, nDisc |-> 0,
     raised |-> FALSE, discOk |-> FALSE, discCalled |-> FALSE,
     connOk |-> FALSE, connResult |-> "none"]

\* A thread whose current call returned: the call is popped.
Popped(r) == [IdleThread EXCEPT !.todo = Tail(r.todo)]

HeadOp(t) == Head(thr[t].todo)
AtCall(t, op) == /\ thr[t].pc = "ready"
                 /\ thr[t].todo /= <<>>
                 /\ HeadOp(t).op = op

\* A cache that holds the device put last and nothing else.
CachePutAlone(cache, serial, dev) == [x \in {serial} |-> dev]

\* adbmanager.py:73  self._device_cache[device.serial] = device
CachePut(cache, serial, dev) ==
    [x \in DOMAIN cache \cup {serial} |-> IF x = serial THEN dev ELSE cache[x]]

\* adbmanager.py:278  del self._device_cache[device_serial]
CacheDel(cache, serial) == [x \in DOMAIN cache \ {serial} |-> cache[x]]

\* adbmanager.py:302  self._device_cache.get(serial)
CacheGet(cache, serial) ==
    IF serial \in DOMAIN cache THEN cache[serial] ELSE NoDevice

RegInit ==
    /\ adbUp \in BOOLEAN
    /\ transport \in SUBSET Serials
    /\ envChanges = 0
    /\ deviceCache = [x \in {} |-> NoDevice]
    /\ mainCurrent = NoSerial
    /\ lastSerial = [c \in {Controllers[i] : i \in DOMAIN Controllers} |-> NoSerial]
    /\ shown = {}
    /\ uiEvents = 0
    \* main.py: MainController(...).initialize() is the UI thread's first call
    /\ thr = [t \in Threads |->
                IF t = "ui"
                THEN [IdleThread EXCEPT !.todo = <<MainOp("INIT", NoSerial)>>]
                ELSE IdleThread]

\* ---------------------------------------------------------- environment

\* A device is attached (USB) or paired (adb connect).
Plug(s) ==
    /\ s \notin transport
    /\ envChanges < MaxEnvChanges
    /\ envChanges' = envChanges + 1
    /\ transport' = transport \cup {s}
    /\ UNCHANGED <<adbUp, deviceCache, uiVars, thr, logVars, callVars>>

\* A device goes away.
Unplug(s) ==
    /\ s \in transport
    /\ envChanges < MaxEnvChanges
    /\ envChanges' = envChanges + 1
    /\ transport' = transport \ {s}
    /\ UNCHANGED <<adbUp, deviceCache, uiVars, thr, logVars, callVars>>

\* The adb server stops or starts.
ServerToggle ==
    /\ envChanges < MaxEnvChanges
    /\ envChanges' = envChanges + 1
    /\ adbUp' = ~adbUp
    /\ UNCHANGED <<transport, deviceCache, uiVars, thr, logVars, callVars>>

\* ------------------------------------------------------------ get_devices

\* A liveness check that never fails.
is_adb_running_always == TRUE

\* adbmanager.py:45-54  False when there is no client or client.version()
\* raises: either way the server does not answer.
is_adb_running == adbUp

\* What a finished get_devices hands back: to get_device_by_serial line 302
\* when that called it, or to the caller that had it pending.
GdReturned(r, result) ==
    IF Head(r.todo).op = "RES"
    THEN [r EXCEPT !.pc = "res_get", !.gd = result, !.devs = {}]
    ELSE [Popped(r) EXCEPT !.gd = result]

\* adbmanager.py:63-65  get_devices is entered by the thread with record r.
GdEntered(r) ==
    IF is_adb_running
    THEN [r EXCEPT !.pc = "gd_list", !.gd = NoResult]
    ELSE GdReturned(r, NoResult)

\* A pending get_devices call starts.
GdAlive(t) ==
    /\ AtCall(t, "GD")
    /\ thr' = [thr EXCEPT ![t] = GdEntered(@)]
    /\ UNCHANGED <<envVars, deviceCache, uiVars, logVars, callVars>>

\* adbmanager.py:68  devices = self.client.devices()   (raises when the
\* server went away after the handshake: lines 82-84 return [])
GdList(t) ==
    /\ thr[t].pc = "gd_list"
    /\ thr' = [thr EXCEPT ![t] =
                 IF adbUp
                 THEN [@ EXCEPT !.pc = "gd_loop", !.devs = transport,
                                !.gd = [NoResult EXCEPT !.queried = TRUE,
                                                        !.serials = transport]]
                 ELSE GdReturned(@, [NoResult EXCEPT !.queried = TRUE])]
    /\ UNCHANGED <<envVars, deviceCache, uiVars, logVars, callVars>>

\* adbmanager.py:71-76  one iteration: cache the device, then _get_device_info
\* starts its shell commands on it.
GdInsert(t) ==
    /\ thr[t].pc = "gd_loop"
    /\ \E d \in thr[t].devs :
         /\ deviceCache' = CachePut(deviceCache, d, Device(d))
         /\ thr' = [thr EXCEPT ![t].pc = "gd_info", ![t].inflight = d]
    /\ UNCHANGED <<envVars, uiVars, logVars, callVars>>

\* adbmanager.py:76-77, 86-141  _get_device_info returns (its own failures
\* are caught: lines 135-141) and the info is appended.
GdInfo(t) ==
    /\ thr[t].pc = "gd_info"
    /\ thr' = [thr EXCEPT ![t].pc = "gd_loop",
                          ![t].devs = @ \ {thr[t].inflight},
                          ![t].inflight = NoSerial]
    /\ UNCHANGED <<envVars, deviceCache, uiVars, logVars, callVars>>

\* adbmanager.py:79-80  the loop is over: return device_list
GdReturn(t) ==
    /\ thr[t].pc = "gd_loop"
    /\ thr[t].devs = {}
    /\ thr' = [thr EXCEPT ![t] =
                 GdReturned(@, [thr[t].gd EXCEPT !.ok = TRUE,
                                                 !.keys = DOMAIN deviceCache])]
    /\ UNCHANGED <<envVars, deviceCache, uiVars, logVars, callVars>>

\* --------------------------------------------------- get_device_by_serial

\* adbmanager.py:297  if serial in self._device_cache  (and, on a miss,
\* line 301: the call of get_devices)
ResCheck(t) ==
    /\ AtCall(t, "RES")
    /\ thr' = [thr EXCEPT ![t] =
                 IF HeadOp(t).s \in DOMAIN deviceCache
                 THEN [@ EXCEPT !.pc = "res_read", !.nDisc = 0]
                 ELSE GdEntered([@ EXCEPT !.nDisc = 1])]
    /\ UNCHANGED <<envVars, deviceCache, uiVars, logVars, callVars>>

\* The thread's handler is left by an exception: what it had pending is
\* dropped (a worker's run() reports the error and ends).
Raised(r) == [IdleThread EXCEPT !.raised = TRUE]

\* adbmanager.py:298  return self._device_cache[serial]   (KeyError when the
\* key has gone since line 297)
ResRead(t) ==
    /\ thr[t].pc = "res_read"
    /\ thr' = [thr EXCEPT ![t] =
                 IF HeadOp(t).s \in DOMAIN deviceCache
                 THEN [@ EXCEPT !.pc = "res_ret",
                                !.handle = deviceCache[HeadOp(t).s]]
                 ELSE Raised(@)]
    /\ UNCHANGED <<envVars, deviceCache, uiVars, logVars, callVars>>

\* adbmanager.py:302  return self._device_cache.get(serial)
ResGet(t) ==
    /\ thr[t].pc = "res_get"
    /\ thr' = [thr EXCEPT ![t].pc = "res_ret",
                          ![t].gd = NoResult,
                          ![t].handle = CacheGet(deviceCache, HeadOp(t).s)]
    /\ UNCHANGED <<envVars, deviceCache, uiVars, logVars, callVars>>

\* The caller of get_device_by_serial goes on: `if not device: return ...'
\* (filemanager.py:33-36, processmanager.py:30-33, remotemanager.py:125-127,
\* adbmanager.py:153-155) or, for terminalcontroller.py:49-50, no command.
ResDone(t) ==
    /\ thr[t].pc = "res_ret"
    /\ thr[t].handle = NoDevice \/ ~HeadOp(t).sh
    /\ thr' = [thr EXCEPT ![t] = Popped(@)]
    /\ UNCHANGED <<envVars, deviceCache, uiVars, logVars, callVars>>

\* device.shell(cmd) is sent on the device object the caller holds
\* (filemanager.py:53, processmanager.py:40, remotemanager.py:130,
\* adbmanager.py:161), whatever the cache holds by then.
ShellIssue(t) ==
    /\ thr[t].pc = "res_ret"
    /\ thr[t].handle /= NoDevice
    /\ HeadOp(t).sh
    /\ thr' = [thr EXCEPT ![t].pc = "shell",
                          ![t].inflight = thr[t].handle.serial]
    /\ UNCHANGED <<envVars, deviceCache, uiVars, logVars, callVars>>

\* device.shell(cmd) returns (or raises, which every caller catches).
ShellDone(t) ==
    /\ thr[t].pc = "shell"
    /\ thr' = [thr EXCEPT ![t] = Popped(@)]
    /\ UNCHANGED <<envVars, deviceCache, uiVars, logVars, callVars>>

\* ------------------------------------------------------ disconnect_device

\* adbmanager.py:269-274  what disconnect_device does with a serial: one
\* without ":" is refused before the transport is asked; for another one
\* remote_disconnect is called, which raises when the server is away.
disconnect_device(s) ==
    IF ~HasColon(s)
    THEN [called |-> FALSE, ok |-> FALSE]
    ELSE [called |-> TRUE, ok |-> adbUp]

\* adbmanager.py:255-285, and for the main controller's call what follows
\* it in handle_disconnect_request.
Disconnect(t) ==
    /\ AtCall(t, "DISC")
    /\ LET s == HeadOp(t).s
           d == disconnect_device(s)
       IN /\ transport' = IF d.ok THEN transport \ {s} ELSE transport
          /\ deviceCache' = IF d.ok /\ s \in DOMAIN deviceCache
                            THEN CacheDel(deviceCache, s) ELSE deviceCache
          \* maincontroller.py:182-186  on success: refresh_devices()
          /\ thr' = [thr EXCEPT ![t] =
                       [Popped(@) EXCEPT
                          !.discOk = d.ok,
                          !.discCalled = d.called,
                          !.todo = IF d.ok /\ HeadOp(t).c = "main"
                                   THEN <<MainOp("GD", NoSerial),
                                          MainOp("RF", NoSerial)>>
                                        \o Tail(thr[t].todo)
                                   ELSE Tail(thr[t].todo)]]
    /\ UNCHANGED <<adbUp, envChanges, uiVars, logVars, callVars>>

\* --------------------------------------------------------- connect_device

\* How a remote_connect call can end: with a truthy result (the device was
\* paired), with a falsy one (the server could not reach it), or with an
\* exception (the server went away after the liveness check, or the
\* address is no address).
ConnectOutcomes == {"truthy", "falsy", "raises"}

\* A connect_device that takes every result that is no exception for a
\* success.
connect_device_unchecked(outcome) ==
    IF ~is_adb_running
    THEN [result |-> "none", ok |-> FALSE]
    ELSE [result |-> outcome, ok |-> outcome /= "raises"]

\* adbmanager.py:236-253  what connect_device returns: False without a call
\* when the liveness check fails (:236-238), else True for a truthy result
\* of remote_connect and False for a falsy one (:244-249) and for an
\* exception (:251-253)
connect_device(outcome) ==
    IF ~is_adb_running
    THEN [result |-> "none", ok |-> FALSE]
    ELSE [result |-> outcome, ok |-> outcome = "truthy"]

\* adbmanager.py:225-253  connect_device(ip, port), the serial of the device
\* being ip:port; a device the server paired is one the transport lists.
Connect(t) ==
    /\ AtCall(t, "CONN")
    /\ \E outcome \in ConnectOutcomes :
         LET s == HeadOp(t).s
             c == connect_device(outcome)
         IN /\ transport' = IF c.result = "truthy"
                             THEN transport \cup {s} ELSE transport
            /\ thr' = [thr EXCEPT ![t] =
                         [Popped(@) EXCEPT !.connOk = c.ok,
                                           !.connResult = c.result]]
    /\ UNCHANGED <<adbUp, envChanges, deviceCache, uiVars, logVars, callVars>>

\* ------------------------------------------------------ UI thread handlers

\* maincontroller.py:97-125  initialize: refresh_devices() when the server
\* answers.
Initialize(t) ==
    /\ AtCall(t, "INIT")
    /\ thr' = [thr EXCEPT ![t] =
                 [Popped(@) EXCEPT
                    !.todo = IF is_adb_running
                             THEN <<MainOp("GD", NoSerial), MainOp("RF", NoSerial)>>
                             ELSE <<>>]]
    /\ UNCHANGED <<envVars, deviceCache, uiVars, logVars, callVars>>

\* maincontroller.py:193-223  handle_device_selected(s), after it recorded
\* the serial: update_device_dashboard(s), then set_device(s) on the
\* terminal, app, file, process, logcat and remote controllers.
handle_device_selected(s) ==
    <<MainOp("GD", NoSerial), MainOp("DASH", s)>>
    \o [i \in DOMAIN Controllers |-> Op("SETDEV", Controllers[i], s, FALSE)]

\* devicepanel.py:133-166  update_devices(devices) refills the combo box,
\* whose currentTextChanged is connected to on_device_selected (:78,
\* :124-131): the first device added becomes the current item and is
\* selected, and so is then the item that was current before, when it is
\* still listed further down.  The serials selected, in order.
update_devices(first, previous, devices) ==
    IF previous \in devices /\ previous /= first
    THEN <<first, previous>>
    ELSE <<first>>

\* maincontroller.py:247-263  refresh_devices, after its get_devices call:
\* the panel is given the list, which selects devices as above; then the
\* dashboard of a still listed current device is updated
\* (update_device_dashboard: get_devices again, then the extended info) and a
\* vanished one is deselected.
RefreshTail(t) ==
    /\ AtCall(t, "RF")
    /\ LET devices == thr[t].gd.serials
       IN /\ shown' = devices
          /\ IF devices = {}
             THEN /\ mainCurrent' = NoSerial
                  /\ thr' = [thr EXCEPT ![t] = Popped(@)]
             ELSE \E first \in devices :
                    LET sel == update_devices(first, mainCurrent, devices)
                        cur == sel[Len(sel)]
                    IN /\ mainCurrent' = cur
                       /\ thr' = [thr EXCEPT ![t] =
                            [Popped(@) EXCEPT
                               !.todo =
                                  handle_device_selected(sel[1])
                                  \o (IF Len(sel) = 2
                                      THEN handle_device_selected(sel[2])
                                      ELSE <<>>)
                                  \o <<MainOp("GD", NoSerial),
                                       MainOp("DASH", cur)>>
                                  \o Tail(thr[t].todo)]]
    /\ UNCHANGED <<envVars, deviceCache, lastSerial, uiEvents, logVars, callVars>>

\* maincontroller.py:234-245  update_device_dashboard, after its get_devices
\* call: get_extended_device_info(serial) when the device was listed.
DashboardTail(t) ==
    /\ AtCall(t, "DASH")
    /\ thr' = [thr EXCEPT ![t] =
                 [Popped(@) EXCEPT
                    !.todo = IF HeadOp(t).s \in thr[t].gd.serials
                             THEN <<Op("RES", "main", HeadOp(t).s, TRUE)>>
                                  \o Tail(thr[t].todo)
                             ELSE Tail(thr[t].todo)]]
    /\ UNCHANGED <<envVars, deviceCache, uiVars, logVars, callVars>>

\* QThread.isRunning() of a load worker
isRunning(w) == thr[w].todo /= <<>>

\* <controller>.set_device(serial) when the serial is the last one set:
\* terminalcontroller.py:41-42, appcontroller.py:65-66, filecontroller.py:75-76,
\* processcontroller.py:57-58, logcatcontroller.py:71-72,
\* remotecontroller.py:47-48.
SetDeviceSame(t) ==
    /\ AtCall(t, "SETDEV")
    /\ HeadOp(t).s = lastSerial[HeadOp(t).c]
    /\ thr' = [thr EXCEPT ![t] = Popped(@)]
    /\ UNCHANGED <<envVars, deviceCache, uiVars, logVars, callVars>>

\* terminalcontroller.py:44-50 and remotecontroller.py:50-57: the serial is
\* recorded and the device is looked up on the UI thread; the remote
\* controller then runs `wm size' on it (remotemanager.py:125-130).
SetDeviceLookup(t) ==
    /\ AtCall(t, "SETDEV")
    /\ HeadOp(t).c \in {"terminal", "remote"}
    /\ HeadOp(t).s /= lastSerial[HeadOp(t).c]
    /\ lastSerial' = [lastSerial EXCEPT ![HeadOp(t).c] = HeadOp(t).s]
    /\ thr' = [thr EXCEPT ![t] =
                 [Popped(@) EXCEPT
                    !.todo = <<Op("RES", HeadOp(t).c, HeadOp(t).s,
                                  HeadOp(t).c = "remote")>>
                             \o Tail(thr[t].todo)]]
    /\ UNCHANGED <<envVars, deviceCache, mainCurrent, shown, uiEvents,
                   logVars, callVars>>

\* appcontroller.py:68-73 + 78-111, filecontroller.py:78-84 + 90-112,
\* processcontroller.py:60-66 + 71-91: the serial is recorded, a running
\* load worker is terminated, and a new worker is started, which calls
\* list_installed_apps / list_directory / list_processes: a lookup of the
\* device and shell commands on it.
SetDeviceLoad(t) ==
    /\ AtCall(t, "SETDEV")
    /\ HeadOp(t).c \in Workers
    /\ HeadOp(t).s /= lastSerial[HeadOp(t).c]
    /\ lastSerial' = [lastSerial EXCEPT ![HeadOp(t).c] = HeadOp(t).s]
    /\ thr' = [thr EXCEPT
                 ![t] = Popped(@),
                 ![HeadOp(t).c] =
                     [IdleThread EXCEPT
                        !.todo = <<Op("RES", HeadOp(t).c, HeadOp(t).s, TRUE)>>]]
    /\ UNCHANGED <<envVars, deviceCache, mainCurrent, shown, uiEvents,
                   logVars, callVars>>

\* logcatcontroller.py:74-82 with no stream worker: the serial is recorded.
SetDeviceLogcat(t) ==
    /\ AtCall(t, "SETDEV")
    /\ HeadOp(t).c = "logcat"
    /\ HeadOp(t).s /= lastSerial["logcat"]
    /\ streamWorker = 0
    /\ lastSerial' = [lastSerial EXCEPT !["logcat"] = HeadOp(t).s]
    /\ logSerial' = HeadOp(t).s
    /\ thr' = [thr EXCEPT ![t] = Popped(@)]
    /\ UNCHANGED <<envVars, deviceCache, mainCurrent, shown, uiEvents,
                   streamWorker, stopFlag, wpc, proc, pipe, held, sigQueue,
                   delivered, statusMsg, uiPc, uiCont, hist, callVars>>

\* The UI thread is back in its event loop.
UiIdle == /\ thr["ui"].pc = "ready"
          /\ thr["ui"].todo = <<>>
          /\ uiEvents < MaxUiEvents

\* device_panel.refresh_requested -> maincontroller.py:247-250
UiRefresh ==
    /\ UiIdle
    /\ uiEvents' = uiEvents + 1
    /\ thr' = [thr EXCEPT !["ui"] =
                 [IdleThread EXCEPT
                    !.todo = <<MainOp("GD", NoSerial), MainOp("RF", NoSerial)>>]]
    /\ UNCHANGED <<envVars, deviceCache, mainCurrent, lastSerial, shown,
                   logVars, callVars>>

\* The user picks another item of the combo box: device_selected(serial)
\* (devicepanel.py:124-128) -> maincontroller.py:193-223
UiSelect(s) ==
    /\ UiIdle
    /\ s \in shown
    /\ s /= mainCurrent
    /\ uiEvents' = uiEvents + 1
    /\ mainCurrent' = s
    /\ thr' = [thr EXCEPT !["ui"] =
                 [IdleThread EXCEPT !.todo = handle_device_selected(s)]]
    /\ UNCHANGED <<envVars, deviceCache, lastSerial, shown, logVars, callVars>>

\* The Disconnect button, enabled when the current item is a network device
\* (devicepanel.py:114-118, 129-131): disconnect_requested(serial),
\* confirmed -> maincontroller.py:169-191
UiDisconnect(s) ==
    /\ UiIdle
    /\ s = mainCurrent
    /\ HasColon(s)
    /\ uiEvents' = uiEvents + 1
    /\ thr' = [thr EXCEPT !["ui"] =
                 [IdleThread EXCEPT !.todo = <<MainOp("DISC", s)>>]]
    /\ UNCHANGED <<envVars, deviceCache, mainCurrent, lastSerial, shown,
                   logVars, callVars>>

\* A thread's next statement.
Step(t) ==
    \/ GdAlive(t) \/ GdList(t) \/ GdInsert(t) \/ GdInfo(t) \/ GdReturn(t)
    \/ ResCheck(t) \/ ResRead(t) \/ ResGet(t) \/ ResDone(t)
    \/ ShellIssue(t) \/ ShellDone(t)

UiStep ==
    \/ Initialize("ui") \/ Disconnect("ui") \/ RefreshTail("ui") \/ DashboardTail("ui")
    \/ SetDeviceSame("ui") \/ SetDeviceLookup("ui") \/ SetDeviceLoad("ui")
    \/ SetDeviceLogcat("ui")

Next ==
    \/ \E s \in Serials : Plug(s) \/ Unplug(s)
    \/ ServerToggle
    \/ UiRefresh
    \/ \E s \in Serials : UiSelect(s) \/ UiDisconnect(s)
    \/ UiStep
    \/ \E t \in Threads : Step(t)

\* ======================================================== streaming reader

Gens == 1 .. MaxStreams

\* A log line is the sequence of its lexemes; ":" stands for a colon
\* followed by white space, the other lexemes are separated by white space.
StructuredLine == <<"01-27", "13:30:45.123", "1234", "5678", "I",
                    "Tag", ":", "Message">>
\* What `logcat -v time' prints (logcatmanager.py:93).
TimeFormatLine == <<"01-27", "13:30:45.123", "I/Tag(", "1234)", ":", "Message">>
\* A line of white space only.
BlankLine == <<>>
Lines == {StructuredLine, TimeFormatLine, BlankLine}

\* logcatmanager.py:59  the classes of the pattern
IsTimestamp(d, tm) == d \in {"01-27"} /\ tm \in {"13:30:45.123"}
IsDigits(x) == x \in {"1234", "5678"}
IsLevel(x) == x \in {"V", "D", "I", "W", "E", "F"}

\* int(pid), int(tid)  (logcatmanager.py:67-68)
IntOf(x) == CASE x = "1234" -> 1234 [] x = "5678" -> 5678 [] OTHER -> 0

NoEntry == [timestamp |-> <<>>, pid |-> 0, tid |-> 0, level |-> "",
            tag |-> <<>>, message |-> <<>>]

\* The places of a ":" that can end the tag: `(.+?):\s+(.+)' needs a lexeme
\* before it and one after it.
TagEnds(line) == {k \in 7 .. Len(line) - 1 : line[k] = ":"}

\* logcatmanager.py:44-78  parse_log_line: the LogEntry, or NoEntry for None
parse_log_line(line) ==
    IF /\ Len(line) >= 8
       /\ IsTimestamp(line[1], line[2])
       /\ IsDigits(line[3])
       /\ IsDigits(line[4])
       /\ IsLevel(line[5])
       /\ TagEnds(line) /= {}
    THEN LET k == CHOOSE i \in TagEnds(line) : \A j \in TagEnds(line) : i <= j
         IN [timestamp |-> <<line[1], line[2]>>,
             pid |-> IntOf(line[3]),
             tid |-> IntOf(line[4]),
             level |-> line[5],
             tag |-> SubSeq(line, 6, k - 1),
             message |-> SubSeq(line, k + 1, Len(line))]
    ELSE NoEntry

\* What logcat_widget.append_log is given: a LogEntry or the raw line.
EntryRecord(e) == [kind |-> "entry", text |-> <<>>, entry |-> e]
RawRecord(line) == [kind |-> "raw", text |-> line, entry |-> NoEntry]

\* on_log_received without its raw-text fallback
on_log_received_entries_only(line) ==
    IF parse_log_line(line) /= NoEntry
    THEN <<EntryRecord(parse_log_line(line))>>
    ELSE <<>>

\* logcatcontroller.py:150-163  on_log_received: the records appended
on_log_received(line) ==
    IF line = BlankLine
    THEN <<>>
    ELSE IF parse_log_line(line) /= NoEntry
         THEN <<EntryRecord(parse_log_line(line))>>
         ELSE <<RawRecord(line)>>

Ended == {"finished", "terminated"}

\* QThread.isRunning() of a stream worker
StreamRunning(g) == wpc[g] \notin Ended \cup {"unstarted"}

NoCont == [h |-> "none", s |-> NoSerial]

LogInit ==
    /\ logSerial = NoSerial
    /\ streamWorker = 0
    /\ stopFlag = FALSE
    /\ wpc = [g \in Gens |-> "unstarted"]
    /\ proc = [g \in Gens |-> "none"]
    /\ pipe = [g \in Gens |-> <<>>]
    /\ held = [g \in Gens |-> <<>>]
    /\ sigQueue = <<>>
    /\ delivered = <<>>
    /\ statusMsg = ""
    /\ uiPc = "idle"
    /\ uiCont = NoCont
    /\ hist = [read |-> [g \in Gens |-> <<>>],
               emitted |-> [g \in Gens |-> <<>>],
               received |-> <<>>,
               stopReq |-> {},
               stopped |-> {},
               produced |-> 0,
               idleStop |-> FALSE,
               uiRaised |-> FALSE]

\* ---------------------------------------------------- the adb subprocess

\* adb logcat prints a line.
Produce(g, line) ==
    /\ proc[g] = "running"
    /\ StreamRunning(g)
    /\ hist.produced < MaxLines
    /\ pipe' = [pipe EXCEPT ![g] = Append(@, line)]
    /\ hist' = [hist EXCEPT !.produced = @ + 1]
    /\ UNCHANGED <<regVars, callVars, logSerial, streamWorker, stopFlag, wpc, proc,
                   held, sigQueue, delivered, statusMsg, uiPc, uiCont>>

\* adb logcat ends by itself (the device went away): end of file follows
\* what it printed.
ProducerExit(g) ==
    /\ proc[g] = "running"
    /\ StreamRunning(g)
    /\ proc' = [proc EXCEPT ![g] = "exited"]
    /\ UNCHANGED <<regVars, callVars, logSerial, streamWorker, stopFlag, wpc, pipe,
                   held, sigQueue, delivered, statusMsg, uiPc, uiCont, hist>>

\* ------------------------------- LogcatStreamWorker.run / start_logcat_stream

\* logcatmanager.py:106-112  subprocess.Popen
WPopen(g) ==
    /\ wpc[g] = "popen"
    /\ wpc' = [wpc EXCEPT ![g] = "reset"]
    /\ proc' = [proc EXCEPT ![g] = "running"]
    /\ UNCHANGED <<regVars, callVars, logSerial, streamWorker, stopFlag, pipe, held,
                   sigQueue, delivered, statusMsg, uiPc, uiCont, hist>>

\* logcatmanager.py:106, 127-129 and logcatcontroller.py:37-39: Popen raises
\* (no adb executable), run() emits error(str) and returns.
WPopenFails(g) ==
    /\ wpc[g] = "popen"
    /\ wpc' = [wpc EXCEPT ![g] = "finished"]
    /\ sigQueue' = Append(sigQueue, [sig |-> "error", gen |-> g,
                                     line |-> BlankLine])
    /\ UNCHANGED <<regVars, callVars, logSerial, streamWorker, stopFlag, proc, pipe,
                   held, delivered, statusMsg, uiPc, uiCont, hist>>

\* logcatmanager.py:115  self._stop_streaming = False
WReset(g) ==
    /\ wpc[g] = "reset"
    /\ stopFlag' = FALSE
    /\ wpc' = [wpc EXCEPT ![g] = "loop"]
    /\ UNCHANGED <<regVars, callVars, logSerial, streamWorker, proc, pipe, held,
                   sigQueue, delivered, statusMsg, uiPc, uiCont, hist>>

\* logcatmanager.py:116  while not self._stop_streaming
WLoop(g) ==
    /\ wpc[g] = "loop"
    /\ wpc' = [wpc EXCEPT ![g] = IF stopFlag THEN "cleanup" ELSE "readline"]
    /\ UNCHANGED <<regVars, callVars, logSerial, streamWorker, stopFlag, proc, pipe,
                   held, sigQueue, delivered, statusMsg, uiPc, uiCont, hist>>

\* logcatmanager.py:117  line = process.stdout.readline(): a line
WReadline(g) ==
    /\ wpc[g] = "readline"
    /\ pipe[g] /= <<>>
    /\ held' = [held EXCEPT ![g] = <<Head(pipe[g])>>]
    /\ pipe' = [pipe EXCEPT ![g] = Tail(@)]
    /\ hist' = [hist EXCEPT !.read[g] = Append(@, Head(pipe[g]))]
    /\ wpc' = [wpc EXCEPT ![g] = "callback"]
    /\ UNCHANGED <<regVars, callVars, logSerial, streamWorker, stopFlag, proc,
                   sigQueue, delivered, statusMsg, uiPc, uiCont>>

\* logcatmanager.py:117-119  readline() returns "" at end of file: break
WReadlineEof(g) ==
    /\ wpc[g] = "readline"
    /\ pipe[g] = <<>>
    /\ proc[g] = "exited"
    /\ wpc' = [wpc EXCEPT ![g] = "cleanup"]
    /\ UNCHANGED <<regVars, callVars, logSerial, streamWorker, stopFlag, proc, pipe,
                   held, sigQueue, delivered, statusMsg, uiPc, uiCont, hist>>

\* logcatmanager.py:121 and logcatcontroller.py:28-29: callback(line) emits
\* log_received(line), which is posted to the controller's thread.
WCallback(g) ==
    /\ wpc[g] = "callback"
    /\ sigQueue' = Append(sigQueue, [sig |-> "log", gen |-> g,
                                     line |-> held[g][1]])
    /\ hist' = [hist EXCEPT !.emitted[g] = Append(@, held[g][1])]
    /\ held' = [held EXCEPT ![g] = <<>>]
    /\ wpc' = [wpc EXCEPT ![g] = "loop"]
    /\ UNCHANGED <<regVars, callVars, logSerial, streamWorker, stopFlag, proc, pipe,
                   delivered, statusMsg, uiPc, uiCont>>

\* logcatmanager.py:124-125  process.terminate(); process.wait()
WCleanup(g) ==
    /\ wpc[g] = "cleanup"
    /\ proc' = [proc EXCEPT ![g] = "terminated"]
    /\ pipe' = [pipe EXCEPT ![g] = <<>>]
    /\ wpc' = [wpc EXCEPT ![g] = "finished"]
    /\ UNCHANGED <<regVars, callVars, logSerial, streamWorker, stopFlag, held,
                   sigQueue, delivered, statusMsg, uiPc, uiCont, hist>>

\* ------------------------------------------------------- LogcatController

\* Queued log_received / error calls of worker g that are still pending when
\* the controller lets go of the worker object: they stay in the event
\* queue, or go with the object.
Pending(q, g, keep) ==
    IF keep THEN q ELSE SelectSeq(q, LAMBDA m : m.gen /= g)

\* stop_streaming without its guard
StopGuardAlways(sw) == TRUE

\* stop_streaming that never terminates the worker
EscalateNever(finishedInTime) == FALSE

\* start_streaming that never stops the running worker first
StartStopsFirstNever(sw, running) == FALSE

\* logcatcontroller.py:132  if self.stream_worker
StopGuard(sw) == sw /= 0

\* logcatcontroller.py:139  if not self.stream_worker.wait(2000): terminate
Escalate(finishedInTime) == ~finishedInTime

\* logcatcontroller.py:111  if self.stream_worker and
\* self.stream_worker.isRunning(): self.stop_streaming()
StartStopsFirst(sw, running) == sw /= 0 /\ running

\* logcatcontroller.py:130-136, 146-147 and :41-43, logcatmanager.py:131-133
\* stop_streaming is entered by handler cont.h: with a worker, the stop flag
\* is set and the UI thread waits; with none, only the status message is set.
EnterStop(cont) ==
    /\ uiCont' = cont
    /\ IF StopGuard(streamWorker)
       THEN IF streamWorker = 0
            THEN \* None.stop(): AttributeError leaves the handler
                 /\ uiPc' = "resume"
                 /\ hist' = [hist EXCEPT !.uiRaised = TRUE]
                 /\ UNCHANGED <<stopFlag, statusMsg>>
            ELSE /\ stopFlag' = TRUE
                 /\ hist' = [hist EXCEPT !.stopReq = @ \cup {streamWorker}]
                 /\ uiPc' = "stopping"
                 /\ UNCHANGED statusMsg
       ELSE /\ statusMsg' = "Logcat streaming stopped"
            /\ uiPc' = "resume"
            /\ hist' = [hist EXCEPT !.idleStop = TRUE]
            /\ UNCHANGED stopFlag

\* logcatcontroller.py:138-147  wait(2000) returns true when the worker has
\* finished, false at the timeout; then terminate() and wait(); the worker
\* reference is dropped and the status message set.
StopJoin ==
    /\ uiPc = "stopping"
    /\ LET g == streamWorker
           kill == Escalate(wpc[g] \in Ended) /\ wpc[g] \notin Ended
       IN /\ wpc' = IF kill THEN [wpc EXCEPT ![g] = "terminated"] ELSE wpc
          /\ \E keep \in BOOLEAN : sigQueue' = Pending(sigQueue, g, keep)
          /\ hist' = [hist EXCEPT !.stopped = @ \cup {g}]
    /\ streamWorker' = 0
    /\ statusMsg' = "Logcat streaming stopped"
    /\ uiPc' = "resume"
    /\ UNCHANGED <<regVars, callVars, logSerial, stopFlag, proc, pipe, held, delivered,
                   uiCont>>

FreeGens == {g \in Gens : wpc[g] = "unstarted"}

\* logcatcontroller.py:114-128  a worker is created and started
StartWorker ==
    /\ LET g == CHOOSE x \in FreeGens : \A y \in FreeGens : x <= y
       IN /\ streamWorker' = g
          /\ wpc' = [wpc EXCEPT ![g] = "popen"]
    /\ \E keep \in BOOLEAN : sigQueue' = Pending(sigQueue, streamWorker, keep)
    /\ statusMsg' = "Logcat streaming started"
    /\ uiPc' = "idle"
    /\ uiCont' = NoCont
    /\ UNCHANGED <<regVars, callVars, logSerial, stopFlag, proc, pipe, held, delivered,
                   hist>>

\* logcatcontroller.py:78-82  set_device records the serial
RecordDevice(s) ==
    /\ logSerial' = s
    /\ lastSerial' = [lastSerial EXCEPT !["logcat"] = s]
    /\ uiPc' = "idle"
    /\ uiCont' = NoCont
    /\ UNCHANGED <<envVars, deviceCache, mainCurrent, shown, uiEvents, thr,
                   streamWorker, stopFlag, wpc, proc, pipe, held, sigQueue,
                   delivered, statusMsg, hist, callVars>>

\* stop_streaming has returned to the handler that called it.
Resume ==
    /\ uiPc = "resume"
    /\ \/ /\ uiCont.h \in {"stop", "error"}
          /\ uiPc' = "idle"
          /\ uiCont' = NoCont
          /\ UNCHANGED <<regVars, callVars, logSerial, streamWorker, stopFlag, wpc,
                         proc, pipe, held, sigQueue, delivered, statusMsg,
                         hist>>
       \/ /\ uiCont.h = "start"
          /\ StartWorker
       \/ /\ uiCont.h = "setdev"
          /\ RecordDevice(uiCont.s)

\* logcat_widget.start_requested -> logcatcontroller.py:105-128.  The slot is
\* taken as callable whenever the UI thread is idle; the buttons of the
\* widget (logcatwidget.py:122-150) allow fewer sequences.
LogStart ==
    /\ uiPc = "idle"
    /\ logSerial /= NoSerial
    /\ FreeGens /= {}
    /\ IF StartStopsFirst(streamWorker,
                          streamWorker /= 0 /\ StreamRunning(streamWorker))
       THEN /\ EnterStop([h |-> "start", s |-> NoSerial])
            /\ UNCHANGED <<regVars, callVars, logSerial, streamWorker, wpc, proc, pipe,
                           held, sigQueue, delivered>>
       ELSE StartWorker

\* logcat_widget.stop_requested -> logcatcontroller.py:130-147
LogStop ==
    /\ uiPc = "idle"
    /\ EnterStop([h |-> "stop", s |-> NoSerial])
    /\ UNCHANGED <<regVars, callVars, logSerial, streamWorker, wpc, proc, pipe, held,
                   sigQueue, delivered>>

\* MainController.handle_device_selected -> logcatcontroller.py:69-85
LogSetDevice(s) ==
    /\ uiPc = "idle"
    /\ s /= lastSerial["logcat"]
    /\ IF streamWorker /= 0
       THEN /\ EnterStop([h |-> "setdev", s |-> s])
            /\ UNCHANGED <<regVars, callVars, logSerial, streamWorker, wpc, proc, pipe,
                           held, sigQueue, delivered>>
       ELSE RecordDevice(s)

\* The event loop of the UI thread hands a queued log_received(line) to
\* on_log_received (logcatcontroller.py:150-163).
DeliverLog ==
    /\ uiPc = "idle"
    /\ sigQueue /= <<>>
    /\ Head(sigQueue).sig = "log"
    /\ sigQueue' = Tail(sigQueue)
    /\ delivered' = delivered \o
          [i \in DOMAIN on_log_received(Head(sigQueue).line) |->
             [gen |-> Head(sigQueue).gen,
              rec |-> on_log_received(Head(sigQueue).line)[i]]]
    /\ hist' = [hist EXCEPT !.received = Append(@, Head(sigQueue))]
    /\ UNCHANGED <<regVars, callVars, logSerial, streamWorker, stopFlag, wpc, proc,
                   pipe, held, statusMsg, uiPc, uiCont>>

\* The event loop hands a queued error(str) to on_stream_error
\* (logcatcontroller.py:166-174), which calls stop_streaming.
DeliverError ==
    /\ uiPc = "idle"
    /\ sigQueue /= <<>>
    /\ Head(sigQueue).sig = "error"
    /\ sigQueue' = Tail(sigQueue)
    /\ EnterStop([h |-> "error", s |-> NoSerial])
    /\ UNCHANGED <<regVars, callVars, logSerial, streamWorker, wpc, proc, pipe, held,
                   delivered>>

WorkerStep(g) ==
    \/ WPopen(g) \/ WPopenFails(g) \/ WReset(g) \/ WLoop(g)
    \/ WReadline(g) \/ WReadlineEof(g) \/ WCallback(g) \/ WCleanup(g)

LogNext ==
    \/ \E g \in Gens : \E line \in Lines : Produce(g, line)
    \/ \E g \in Gens : ProducerExit(g)
    \/ \E g \in Gens : WorkerStep(g)
    \/ LogStart
    \/ LogStop
    \/ \E s \in Serials : LogSetDevice(s)
    \/ StopJoin
    \/ Resume
    \/ DeliverLog
    \/ DeliverError

\* ==================================================================== text

\* Text is a sequence of atoms: an atom is a separator (" ", the newline,
\* "/", the backslash, "->", ".") or a run of other characters.  Python's
\* str methods are computed on these sequences.

Newline == "\n"
Backslash == "\\"
Whitespace == {" ", Newline}

\* str.replace(a, b), for one-atom a and b (filemanager.py:40)
Replace(s, a, b) == [i \in DOMAIN s |-> IF s[i] = a THEN b ELSE s[i]]

\* `sub in s' (filemanager.py:56, :60, :116, :166)
Contains(s, sub) ==
    \E i \in 1..(Len(s) - Len(sub) + 1) : SubSeq(s, i, i + Len(sub) - 1) = sub

\* str.startswith / str.endswith (filemanager.py:69, :121, :169, :174)
StartsWith(s, pre) == Len(s) >= Len(pre) /\ SubSeq(s, 1, Len(pre)) = pre
EndsWith(s, suf) ==
    Len(s) >= Len(suf) /\ SubSeq(s, Len(s) - Len(suf) + 1, Len(s)) = suf

\* str.strip() (filemanager.py:53, :66, :114, :119, :167)
RECURSIVE LStrip(_)
LStrip(s) ==
    IF s /= <<>> /\ Head(s) \in Whitespace THEN LStrip(Tail(s)) ELSE s
\* str.rstrip(chars) (posixpath.dirname: head.rstrip('/'))
RECURSIVE RStripIn(_, _)
RStripIn(s, atoms) ==
    IF s /= <<>> /\ s[Len(s)] \in atoms
    THEN RStripIn(SubSeq(s, 1, Len(s) - 1), atoms)
    ELSE s
RStrip(s) == RStripIn(s, Whitespace)
Strip(s) == RStrip(LStrip(s))

\* str.split(sep): the pieces between the occurrences of sep, empty ones
\* included (filemanager.py:65, :117, :167)
RECURSIVE SplitOn(_, _)
SplitOn(s, sep) ==
    IF \E i \in DOMAIN s : s[i] = sep
    THEN LET i == CHOOSE k \in DOMAIN s :
                     s[k] = sep /\ \A j \in 1..(k - 1) : s[j] /= sep
         IN <<SubSeq(s, 1, i - 1)>> \o SplitOn(SubSeq(s, i + 1, Len(s)), sep)
    ELSE <<s>>

\* str.split(): the pieces between runs of whitespace (filemanager.py:154)
Split(s) ==
    SelectSeq(SplitOn(Replace(s, Newline, " "), " "), LAMBDA x : x /= <<>>)

\* sep.join(pieces) (filemanager.py:162)
RECURSIVE Join(_, _)
Join(pieces, sep) ==
    IF pieces = <<>> THEN <<>>
    ELSE IF Len(pieces) = 1 THEN pieces[1]
    ELSE pieces[1] \o <<sep>> \o Join(Tail(pieces), sep)

\* The directory part taken to be the root, whatever the path.
dirname_root(path) == <<"/">>

\* os.path.dirname (filemanager.py:123), with "/" as the separator
dirname(path) ==
    LET slashes == {i \in DOMAIN path : path[i] = "/"}
    IN IF slashes = {} THEN <<>>
       ELSE LET last == CHOOSE i \in slashes : \A j \in slashes : j <= i
                head == SubSeq(path, 1, last)
            IN IF \A i \in DOMAIN head : head[i] = "/"
               THEN head
               ELSE RStripIn(head, {"/"})

\* os.path.basename (filemanager.py:227), with "/" as the separator
basename(path) ==
    LET slashes == {i \in DOMAIN path : path[i] = "/"}
    IN IF slashes = {} THEN path
       ELSE LET last == CHOOSE i \in slashes : \A j \in slashes : j <= i
            IN SubSeq(path, last + 1, Len(path))

\* os.path.join(a, b) (filemanager.py:123), with "/" as the separator
join(a, b) ==
    IF StartsWith(b, <<"/">>) THEN b
    ELSE IF a = <<>> \/ EndsWith(a, <<"/">>) THEN a \o b
    ELSE a \o <<"/">> \o b

\* ============================================================ file manager

\* filemanager.py:106  max_depth = 10
max_depth == 10

\* Number of symbolic links of the longest chain on the device.
MaxChain == 12

\* The paths of a chain: /d/p1 is a link to /d/p2, which is a link to
\* /d/p3, ...
Names == <<"p1", "p2", "p3", "p4", "p5", "p6", "p7", "p8", "p9", "p10",
           "p11", "p12", "p13", "p14">>
PathOf(i) == <<"/", "d", "/", Names[i]>>

\* ------------------------------------------------------ the device's side

\* The device of a list_directory call: /d/p1 .. /d/p<links> are symbolic
\* links, each to the next path, the last one back to /d/p<back> when
\* back > 0 and to a directory otherwise; targets are written relative to
\* the link's directory when rel; the directory listed holds the entries
\* dir; the transport is lost at the first `ls -ld' ("resolve"), at the
\* `ls -l' ("ls"), at the `test -d' of a link entry ("probe") or not at all
\* ("never"); `test -d' on a link entry answers 1 when linkDir.
LinkIndex(w, path) == {i \in 1..w.links : path = PathOf(i)}
TargetOf(w, path) ==
    LET i == CHOOSE k \in LinkIndex(w, path) : TRUE
        k == IF i = w.links /\ w.back > 0 THEN w.back ELSE i + 1
    IN IF w.rel THEN <<Names[k]>> ELSE PathOf(k)

\* The fields of a row of `ls -l' before the name: permissions, links,
\* owner, group, size, date, time.
Fields(perm, owner, group, size, time) ==
    <<perm, <<"1">>, owner, group, size, <<"2024-01-01">>, time>>
StdFields(perm) ==
    Fields(perm, <<"root">>, <<"root">>, <<"4", "0", "9", "6">>, <<"12:00">>)
RowText(perm, name) == Join(StdFields(perm), " ") \o <<" ">> \o name

\* What the device prints for `ls -ld '<path>' 2>/dev/null'.
ls_ld(w, path) ==
    IF LinkIndex(w, path) /= {}
    THEN RowText(<<"l", "rwxrwxrwx">>,
                 path \o <<" ", "->", " ">> \o TargetOf(w, path)) \o <<Newline>>
    ELSE RowText(<<"d", "rwxr-xr-x">>, path) \o <<Newline>>

\* An entry of the listed directory: a row, with the fields `ls -l' prints
\* for it and the name of the file, or a line of text `ls' prints where a
\* row would be.
Row(perm, name) ==
    [kind |-> "row", fields |-> StdFields(perm) \o SplitOn(name, " "),
     name |-> name, text |-> <<>>]
LinkRow(name, target) ==
    [kind |-> "row",
     fields |-> StdFields(<<"l", "rwxrwxrwx">>) \o <<name, <<"->">>, target>>,
     name |-> name, text |-> <<>>]
TextLine(kind, text) ==
    [kind |-> kind, fields |-> <<>>, name |-> <<>>, text |-> text]

DirRow == Row(<<"d", "rwxr-xr-x">>, <<"b">>)
FileRow == Row(<<"-", "rw-r--r--">>, <<"A">>)
HiddenRow == Row(<<"-", "rw-r--r--">>, <<".", "h">>)
SpacedRow == Row(<<"-", "rw-r--r--">>, <<"c", " ", "d">>)
SymlinkRow == LinkRow(<<"l">>, <<"/", "t">>)
\* -rw-rw---- 1 u0_a123 sdcard_rw 2048 2024-01-01 10:00 notes.txt
NotesRow ==
    [kind |-> "row",
     fields |-> Fields(<<"-", "rw-rw----">>, <<"u0_a123">>, <<"sdcard_rw">>,
                       <<"2", "0", "4", "8">>, <<"10:00">>)
                \o <<<<"notes.txt">>>>,
     name |-> <<"notes.txt">>, text |-> <<>>]
\* crw-rw---- 1 root root 10, 62 2024-01-01 12:00 ashmem: for a device node
\* `ls -l' prints the major and minor numbers where the size would be.
NodeRow ==
    [kind |-> "row",
     fields |-> <<<<"c", "rw-rw----">>, <<"1">>, <<"root">>, <<"root">>,
                  <<"1", "0", ",">>, <<"6", "2">>, <<"2024-01-01">>,
                  <<"12:00">>, <<"ashmem">>>>,
     name |-> <<"ashmem">>, text |-> <<>>]
ShortLine == TextLine("text", <<"?", " ", "?", " ", "x">>)
DeniedLine ==
    TextLine("text", <<"ls:", " ", "/", "x", ":", " ",
                       "Permission", " ", "denied">>)
NoSuchLine ==
    TextLine("fatal", <<"ls:", " ", "/", "p1", ":", " ", "No", " ", "such",
                        " ", "file", " ", "or", " ", "directory">>)

Dirs == {<<DirRow, FileRow, HiddenRow, SymlinkRow>>,
         <<FileRow, SymlinkRow, SpacedRow, DirRow, NotesRow>>,
         <<FileRow, ShortLine, DirRow>>,
         <<FileRow, DeniedLine, DirRow>>,
         <<NodeRow, DirRow>>,
         <<>>,
         <<NoSuchLine>>}

EntryText(e) == IF e.kind = "row" THEN Join(e.fields, " ") ELSE e.text

\* What the device prints for `ls -la '<dir>' 2>&1' (all) and for
\* `ls -l '<dir>' 2>&1': the total, with -a the rows of "." and "..", then
\* the entries, without -a those only whose name does not start with ".".
ls_l(w, all) ==
    IF w.dir /= <<>> /\ w.dir[1].kind = "fatal"
    THEN w.dir[1].text \o <<Newline>>
    ELSE LET listed == SelectSeq(w.dir,
                         LAMBDA e : all \/ e.kind /= "row"
                                        \/ ~StartsWith(e.name, <<".">>))
             dots == IF all
                     THEN <<Row(<<"d", "rwxr-xr-x">>, <<".">>),
                            Row(<<"d", "rwxr-xr-x">>, <<".", ".">>)>>
                     ELSE <<>>
             rows == dots \o listed
         IN Join(<<<<"total", " ", "8">>>>
                 \o [i \in DOMAIN rows |-> EntryText(rows[i])], Newline)
            \o <<Newline>>

\* --------------------------------------------------------- list_directory

\* A FileItem (filemodel.py:9-18): its name, path, size, is_directory and
\* is_symlink; date, permissions and owner are left out.  probe is the path
\* _parse_ls_line asked `test -d' about, <<>> when it did not ask.  NoItem
\* is the None of _parse_ls_line.
NoItem ==
    [ok |-> FALSE, name |-> <<>>, path |-> <<>>, size |-> 0,
     is_directory |-> FALSE, is_symlink |-> FALSE, probe |-> <<>>]

\* str.isdigit and int() on a field of a row
DigitAtoms == <<"0", "1", "2", "3", "4", "5", "6", "7", "8", "9">>
isdigit(field) ==
    /\ field /= <<>>
    /\ \A i \in DOMAIN field : \E d \in DOMAIN DigitAtoms : DigitAtoms[d] = field[i]
RECURSIVE int_of(_)
int_of(field) ==
    IF field = <<>> THEN 0
    ELSE 10 * int_of(SubSeq(field, 1, Len(field) - 1))
         + (CHOOSE d \in DOMAIN DigitAtoms :
                DigitAtoms[d] = field[Len(field)]) - 1

\* The size read from the 4th field.
size_of_fourth(parts) == IF isdigit(parts[4]) THEN int_of(parts[4]) ELSE 0

\* filemanager.py:162  size = int(parts[4]) if parts[4].isdigit() else 0
size_of(parts) == IF isdigit(parts[5]) THEN int_of(parts[5]) ELSE 0

\* The path built from the base the listing was performed against.
item_path_from_actual(display_base, actual_base, name) ==
    IF EndsWith(actual_base, <<"/">>)
    THEN actual_base \o name
    ELSE actual_base \o <<"/">> \o name

\* filemanager.py:173-177  the display path of an item
item_path(display_base, actual_base, name) ==
    IF EndsWith(display_base, <<"/">>)
    THEN display_base \o name
    ELSE display_base \o <<"/">> \o name

\* The path probed, built from the base the user sees.
actual_item_path_from_display(display_base, actual_base, name) ==
    IF EndsWith(display_base, <<"/">>)
    THEN display_base \o name
    ELSE display_base \o <<"/">> \o name

\* filemanager.py:182-185  the path `test -d' is asked about
actual_item_path(display_base, actual_base, name) ==
    IF EndsWith(actual_base, <<"/">>)
    THEN actual_base \o name
    ELSE actual_base \o <<"/">> \o name

\* What the device prints for `test -d '<path>' && echo '1' || echo '0''.
test_d(w, path) == IF w.linkDir THEN <<"1", Newline>> ELSE <<"0", Newline>>

\* The classification that takes every link for a directory.
is_directory_of_always(w, permissions, probe) ==
    StartsWith(permissions, <<"d">>) \/ StartsWith(permissions, <<"l">>)

\* filemanager.py:171, 180-190  a row is a directory when its
\* permissions start with "d", a link also when `test -d' answers 1
is_directory_of(w, permissions, probe) ==
    \/ StartsWith(permissions, <<"d">>)
    \/ /\ StartsWith(permissions, <<"l">>)
       /\ Strip(test_d(w, probe)) = <<"1">>

\* filemanager.py:142-204  _parse_ls_line; the shell call of a link's
\* `test -d' raises when the transport is lost, and the row gives None
parse_ls_line(w, line, display_base, actual_base) ==
    LET parts == Split(line)
    IN IF Len(parts) < 8 THEN NoItem
       ELSE LET permissions == parts[1]
                joined == Join(SubSeq(parts, 8, Len(parts)), " ")
                name == IF Contains(joined, <<"->">>)
                        THEN Strip(SplitOn(joined, "->")[1])
                        ELSE joined
                is_symlink == StartsWith(permissions, <<"l">>)
                probe == IF is_symlink
                         THEN actual_item_path(display_base, actual_base, name)
                         ELSE <<>>
            IN IF is_symlink /\ w.lost = "probe" THEN NoItem
               ELSE [ok |-> TRUE,
                     name |-> name,
                     path |-> item_path(display_base, actual_base, name),
                     size |-> size_of(parts),
                     is_directory |-> is_directory_of(w, permissions, probe),
                     is_symlink |-> is_symlink,
                     probe |-> probe]

\* filemanager.py:67-81  the loop over the lines of the output
RECURSIVE Items(_, _, _, _, _)
Items(w, lines, display, actual, show_hidden) ==
    IF lines = <<>> THEN <<>>
    ELSE LET line == Strip(Head(lines))
             rest == Items(w, Tail(lines), display, actual, show_hidden)
             item == parse_ls_line(w, line, display, actual)
         IN IF line = <<>> \/ StartsWith(line, <<"total">>) THEN rest
            ELSE IF ~item.ok \/ item.name \in {<<".">>, <<".", ".">>} THEN rest
            ELSE IF ~show_hidden /\ StartsWith(item.name, <<".">>) THEN rest
            ELSE <<item>> \o rest

\* str.lower() and the order of str, on the atoms names are made of
Lower(a) == IF a = "A" THEN "a" ELSE IF a = "B" THEN "b" ELSE a
Ordered == <<" ", ".", "12:00", "a", "ashmem", "b", "c", "d", "l", "notes.txt">>
Rank(a) == CHOOSE i \in DOMAIN Ordered : Ordered[i] = Lower(a)
RECURSIVE NameLess(_, _)
NameLess(a, b) ==
    IF b = <<>> THEN FALSE
    ELSE IF a = <<>> THEN TRUE
    ELSE IF Rank(Head(a)) /= Rank(Head(b)) THEN Rank(Head(a)) < Rank(Head(b))
    ELSE NameLess(Tail(a), Tail(b))

\* filemanager.py:84  items.sort(key=lambda x: (not x.is_directory,
\* x.name.lower())): directories first, then by name; the sort is stable.
KeyLess(x, y) ==
    \/ x.is_directory /\ ~y.is_directory
    \/ x.is_directory = y.is_directory /\ NameLess(x.name, y.name)
RECURSIVE Insert(_, _)
Insert(x, s) ==
    IF s = <<>> THEN <<x>>
    ELSE IF KeyLess(x, Head(s)) THEN <<x>> \o s
    ELSE <<Head(s)>> \o Insert(x, Tail(s))
RECURSIVE SortItems(_)
SortItems(items) ==
    IF items = <<>> THEN <<>>
    ELSE Insert(items[Len(items)], SortItems(SubSeq(items, 1, Len(items) - 1)))

\* A list_directory(device_serial, display_path, show_hidden) call, where
\* get_device_by_serial returns device.
ListCall(device, p, show_hidden) ==
    [op |-> "list", pc |-> "enter", device |-> device, p |-> p,
     show_hidden |-> show_hidden, display |-> <<>>, path |-> <<>>,
     visited |-> {}, hops |-> 0, queries |-> 0, actual |-> <<>>,
     output |-> <<>>, result |-> <<>>, map |-> {}, caught |-> FALSE]

DisplayPaths ==
    {PathOf(1), Replace(PathOf(1), "/", Backslash), PathOf(1) \o <<"/">>}

ListInit ==
    /\ world \in [op : {"list"}, links : 0..MaxChain, back : 0..MaxChain,
                  rel : BOOLEAN, dir : Dirs,
                  lost : {"never", "resolve", "ls", "probe"},
                  linkDir : BOOLEAN]
    /\ world.back <= world.links
    /\ call \in {ListCall(d, p, h) : d \in {NoDevice, Device(UsbSerial)},
                                     p \in DisplayPaths, h \in BOOLEAN}

\* filemanager.py:89-91  except Exception: return []
ListCaught(c) == [c EXCEPT !.pc = "done", !.result = <<>>, !.caught = TRUE]

\* filemanager.py:33-44  no device: return []; else the path is normalised
\* and _resolve_symlink is entered (:103-106)
ListEnter ==
    /\ call.op = "list"
    /\ call.pc = "enter"
    /\ call' = IF call.device = NoDevice
               THEN [call EXCEPT !.pc = "done"]
               ELSE LET display == Replace(call.p, Backslash, "/")
                    IN [call EXCEPT !.pc = "resolve", !.display = display,
                                    !.path = display]
    /\ UNCHANGED <<regVars, logVars, world>>

\* No bound on the hops.
HopsLeftAlways(hops) == TRUE

\* filemanager.py:108  for _ in range(max_depth)
HopsLeft(hops) == hops < max_depth

\* filemanager.py:109  if path in visited
Revisited(path, visited) == path \in visited

\* filemanager.py:113-135  one iteration that queries the device: the path
\* is a link whose target becomes the path, or it is not and the loop ends.
ResolveQuery ==
    /\ call.op = "list"
    /\ call.pc = "resolve"
    /\ HopsLeft(call.hops)
    /\ ~Revisited(call.path, call.visited)
    /\ call' =
         IF world.lost = "resolve"
         THEN ListCaught([call EXCEPT !.queries = @ + 1])
         ELSE LET ls_output == Strip(ls_ld(world, call.path))
                  parts == SplitOn(ls_output, "->")
                  seen == [call EXCEPT !.visited = @ \cup {call.path},
                                       !.queries = @ + 1]
              IN IF Contains(ls_output, <<"->">>) /\ Len(parts) = 2
                 THEN LET target == Strip(parts[2])
                      IN [seen EXCEPT
                            !.hops = @ + 1,
                            !.path =
                               IF ~StartsWith(target, <<"/">>)
                               THEN Replace(join(dirname(call.path), target),
                                            Backslash, "/")
                               ELSE target]
                 ELSE [seen EXCEPT !.pc = "resolved"]
    /\ UNCHANGED <<regVars, logVars, world>>

\* filemanager.py:108-111  the loop ends at a path seen before, or after
\* max_depth iterations.
ResolveBreak ==
    /\ call.op = "list"
    /\ call.pc = "resolve"
    /\ ~HopsLeft(call.hops) \/ Revisited(call.path, call.visited)
    /\ call' = [call EXCEPT !.pc = "resolved"]
    /\ UNCHANGED <<regVars, logVars, world>>

\* filemanager.py:137-140 and :44  the mapping is stored and the path
\* returned is list_directory's actual_path.
ResolveReturn ==
    /\ call.op = "list"
    /\ call.pc = "resolved"
    /\ call' = [call EXCEPT
                  !.pc = "ls",
                  !.actual = call.path,
                  !.map = IF call.path /= call.display
                          THEN {<<call.display, call.path>>}
                          ELSE {}]
    /\ UNCHANGED <<regVars, logVars, world>>

\* filemanager.py:48-62  the listing command and the tests of its output
ListShell ==
    /\ call.op = "list"
    /\ call.pc = "ls"
    /\ call' =
         IF world.lost = "ls"
         THEN ListCaught(call)
         ELSE LET output == Strip(ls_l(world, call.show_hidden))
              IN IF Contains(output, <<"Permission", " ", "denied">>)
                 THEN [call EXCEPT !.pc = "done", !.output = output]
                 ELSE IF Contains(output, <<"No", " ", "such", " ", "file">>)
                         \/ output = <<>>
                 THEN [call EXCEPT !.pc = "done", !.output = output]
                 ELSE [call EXCEPT !.pc = "parse", !.output = output]
    /\ UNCHANGED <<regVars, logVars, world>>

\* filemanager.py:65-87  the lines are parsed, the items sorted and returned
ListParse ==
    /\ call.op = "list"
    /\ call.pc = "parse"
    /\ call' = [call EXCEPT
                  !.pc = "done",
                  !.result = SortItems(Items(world,
                                             SplitOn(call.output, Newline),
                                             call.display, call.actual,
                                             call.show_hidden))]
    /\ UNCHANGED <<regVars, logVars, world>>

ListNext ==
    \/ ListEnter
    \/ ResolveQuery
    \/ ResolveBreak
    \/ ResolveReturn
    \/ ListShell
    \/ ListParse

\* -------------------------------------------------------------- push_file

\* A push_file(device_serial, local_path, remote_path) call, where
\* get_device_by_serial returns device; attempts are the targets device.push
\* was called with, ret what the call returned.
PushCall(device, local, remote) ==
    [op |-> "push", pc |-> "enter", device |-> device, local |-> local,
     remote |-> remote, target |-> <<>>, attempts |-> <<>>,
     ret |-> "pending", raised |-> FALSE]

LocalPaths == {<<"f.txt">>,
               <<"/", "home", "/", "f.txt">>,
               <<"/", "home", "/", "u", "/", "g.apk">>}
RemotePaths == {<<"/", "data", "/", "x">>,
                <<Backslash, "sdcard", Backslash, "y">>,
                <<"/", "sdcard", "/", "Download", "/", "f.txt">>}

\* The device of a push_file call: whether the first and the second
\* device.push succeed (raise nothing).
PushInit ==
    /\ world \in [op : {"push"}, first : BOOLEAN, second : BOOLEAN]
    /\ call \in {PushCall(d, l, r) : d \in {NoDevice, Device(UsbSerial)},
                                     l \in LocalPaths, r \in RemotePaths}

\* A fallback target that keeps the directories of the local path.
fallback_target_whole(local_path) ==
    <<"/", "sdcard", "/", "Download", "/">> \o local_path

\* filemanager.py:227-228  /sdcard/Download/<basename of local_path>
fallback_target(local_path) ==
    <<"/", "sdcard", "/", "Download", "/">> \o basename(local_path)

\* filemanager.py:208-214  no device: return False; else the remote path is
\* normalised
PushEnter ==
    /\ call.op = "push"
    /\ call.pc = "enter"
    /\ call' = IF call.device = NoDevice
               THEN [call EXCEPT !.pc = "done", !.ret = "False"]
               ELSE [call EXCEPT !.pc = "first",
                                 !.target = Replace(call.remote, Backslash, "/")]
    /\ UNCHANGED <<regVars, logVars, world>>

\* filemanager.py:219-224  device.push(local_path, remote_path): return
\* True, or the exception is caught
PushFirst ==
    /\ call.op = "push"
    /\ call.pc = "first"
    /\ call' = [call EXCEPT
                  !.attempts = Append(@, call.target),
                  !.pc = IF world.first THEN "done" ELSE "fallback",
                  !.ret = IF world.first THEN "True" ELSE "pending"]
    /\ UNCHANGED <<regVars, logVars, world>>

\* filemanager.py:226-235  device.push(local_path, fallback): return True,
\* or the exception is caught and False returned
PushFallback ==
    /\ call.op = "push"
    /\ call.pc = "fallback"
    /\ call' = [call EXCEPT
                  !.attempts = Append(@, fallback_target(call.local)),
                  !.pc = "done",
                  !.ret = IF world.second THEN "True" ELSE "False"]
    /\ UNCHANGED <<regVars, logVars, world>>

PushNext ==
    \/ PushEnter
    \/ PushFirst
    \/ PushFallback

\* -------------------------------------------------- boolean mutations

\* delete_file, rename_file, create_directory (FileManager), kill_process
\* and force_kill_process (ProcessManager).
Methods == {"delete_file", "rename_file", "create_directory",
            "kill_process", "force_kill_process"}

\* The phrases the response of a command is searched for.
NoSuchFile == <<"No", " ", "such", " ", "file">>
PermissionDenied == <<"Permission", " ", "denied">>
NoSuchProcess == <<"No", " ", "such", " ", "process">>
OperationNotPermitted == <<"Operation", " ", "not", " ", "permitted">>

\* What the device answers to the command of a mutation: nothing, or an
\* error message of the tool.
Responses ==
    {<<>>,
     <<"rm:", " ", "/", "x", ":", " ">> \o NoSuchFile
        \o <<" ", "or", " ", "directory", Newline>>,
     <<"mv:", " ", "/", "x", ":", " ">> \o PermissionDenied \o <<Newline>>,
     <<"kill:", " ", "42", ":", " ">> \o NoSuchProcess \o <<Newline>>,
     <<"kill:", " ", "42", ":", " ">> \o OperationNotPermitted \o <<Newline>>}

\* What the device answers to `ps -p <pid> -o NAME': the header and the name
\* of an app's process, of a system process, or the header alone.
PsOutputs ==
    {<<"NAME", Newline, "com", ".", "app", Newline>>,
     <<"NAME", Newline, "init", Newline>>,
     <<"NAME", Newline>>}

\* filemanager.py:269  delete_file: success = "No such file" not in result
\* and "Permission denied" not in result
delete_rejects(result) ==
    Contains(result, NoSuchFile) \/ Contains(result, PermissionDenied)

\* filemanager.py:311  rename_file: the same test
rename_rejects(result) ==
    Contains(result, NoSuchFile) \/ Contains(result, PermissionDenied)

\* filemanager.py:290  create_directory: success = "Permission denied" not
\* in result
mkdir_rejects(result) == Contains(result, PermissionDenied)

\* processmanager.py:123, :176  kill_process, force_kill_process
kill_not_found(result) == Contains(result, NoSuchProcess)

\* processmanager.py:127, :181
kill_not_permitted(result) ==
    Contains(result, PermissionDenied) \/ Contains(result, OperationNotPermitted)

\* Whether a method takes the response of its command for a rejection.
Rejects(method, result) ==
    CASE method = "delete_file" -> delete_rejects(result)
      [] method = "rename_file" -> rename_rejects(result)
      [] method = "create_directory" -> mkdir_rejects(result)
      [] OTHER -> kill_not_found(result) \/ kill_not_permitted(result)

\* Why the device did not do what the command asked, as the response tells.
CauseOf(result) ==
    IF Contains(result, NoSuchFile) \/ Contains(result, NoSuchProcess)
    THEN "not-found"
    ELSE IF Contains(result, PermissionDenied)
            \/ Contains(result, OperationNotPermitted)
    THEN "permission-denied"
    ELSE "none"

\* The outcome of a call: the value returned (ret), and for the record the
\* method, how a success came about (via: the command asked for, "clean", or
\* the substituted force-stop, "fallback") and why a failure did (cause).
NoOutcome ==
    [method |-> "none", ret |-> "pending", via |-> "none", cause |-> "none"]

\* A call of a mutation, where get_device_by_serial returns device; prev is
\* the outcome of the call made before it, commands the commands it has
\* passed to device.shell so far: the one of the method ("command"), "ps",
\* "am force-stop", "am kill".
MutCall(method, device, prev) ==
    [op |-> "mut", pc |-> "enter", method |-> method, device |-> device,
     ret |-> "pending", via |-> "none", cause |-> "none", package |-> <<>>,
     prev |-> prev, commands |-> <<>>]

\* The call c after it passed the commands cmds to device.shell.
Issued(c, cmds) == [c EXCEPT !.commands = @ \o cmds]

\* The device of a mutation: its response to the command, whether the
\* transport is lost at the command (lost), its answer to ps, and whether
\* the transport is lost at the ps or at the am command (fallbackLost).
MutWorlds ==
    [op : {"mut"}, response : Responses, lost : BOOLEAN, ps : PsOutputs,
     fallbackLost : {"never", "ps", "am"}]

MutInit ==
    /\ world \in MutWorlds
    /\ call \in {MutCall(m, d, NoOutcome) :
                    m \in Methods, d \in {NoDevice, Device(UsbSerial)}}

\* Any name is taken for the name of a package.
looks_like_package_always(package_name) == TRUE

\* processmanager.py:137, :191  if '.' in package_name
looks_like_package(package_name) == Contains(package_name, <<".">>)

\* A call that returned.
Returned(c, ret, via, cause) ==
    [c EXCEPT !.pc = "done", !.ret = ret, !.via = via, !.cause = cause]

\* filemanager.py:257-259, :280-282, :299-301, processmanager.py:112-114,
\* :166-168  no device: return False
MutEnter ==
    /\ call.op = "mut"
    /\ call.pc = "enter"
    /\ call' = IF call.device = NoDevice
               THEN Returned(call, "False", "none", "session-lost")
               ELSE [call EXCEPT !.pc = "shell"]
    /\ UNCHANGED <<regVars, logVars, world>>

\* The command of the mutation and the tests of its response:
\* filemanager.py:267-272, :288-291, :309-312, processmanager.py:120-149,
\* :173-205; an exception of device.shell is caught and False returned.
MutShell ==
    /\ call.op = "mut"
    /\ call.pc = "shell"
    /\ LET result == world.response
           c == Issued(call, <<"command">>)
       IN call' =
            IF world.lost
            THEN Returned(c, "False", "none", "transport-lost")
            ELSE IF call.method \in {"kill_process", "force_kill_process"}
            THEN IF kill_not_found(result)
                 THEN Returned(c, "False", "none", CauseOf(result))
                 ELSE IF kill_not_permitted(result)
                 THEN [c EXCEPT !.pc = "ps"]
                 ELSE Returned(c, "True", "clean", CauseOf(result))
            ELSE IF Rejects(call.method, result)
                 THEN Returned(c, "False", "none", CauseOf(result))
                 ELSE Returned(c, "True", "clean", CauseOf(result))
    /\ UNCHANGED <<regVars, logVars, world>>

\* processmanager.py:133-138, :187-192  the name of the process is asked
\* for; without a name that looks like a package (and when the query
\* raises: :142-143, :199-200) False is returned (:145-146, :202-203).
MutPs ==
    /\ call.op = "mut"
    /\ call.pc = "ps"
    /\ LET c == Issued(call, <<"ps">>)
       IN call' =
            IF world.fallbackLost = "ps"
            THEN Returned(c, "False", "none", "permission-denied")
            ELSE LET lines == SplitOn(Strip(world.ps), Newline)
                 IN IF Len(lines) > 1 /\ looks_like_package(Strip(lines[2]))
                    THEN [c EXCEPT !.pc = "am", !.package = Strip(lines[2])]
                    ELSE Returned(c, "False", "none", "permission-denied")
    /\ UNCHANGED <<regVars, logVars, world>>

\* processmanager.py:139-141, :193-197  am force-stop <package> (and am
\* kill <package> for force_kill_process), then return True
MutForceStop ==
    /\ call.op = "mut"
    /\ call.pc = "am"
    /\ call' = IF world.fallbackLost = "am"
               THEN Returned(Issued(call, <<"am force-stop">>),
                             "False", "none", "permission-denied")
               ELSE Returned(Issued(call,
                                    IF call.method = "force_kill_process"
                                    THEN <<"am force-stop", "am kill">>
                                    ELSE <<"am force-stop">>),
                             "True", "fallback", "none")
    /\ UNCHANGED <<regVars, logVars, world>>

\* A second call is made, on any device.
MutAgain ==
    /\ call.op = "mut"
    /\ call.pc = "done"
    /\ call.prev = NoOutcome
    /\ world' \in MutWorlds
    /\ \E m \in Methods, d \in {NoDevice, Device(UsbSerial)} :
         call' = MutCall(m, d, [method |-> call.method, ret |-> call.ret,
                                via |-> call.via, cause |-> call.cause])
    /\ UNCHANGED <<regVars, logVars>>

MutNext ==
    \/ MutEnter
    \/ MutShell
    \/ MutPs
    \/ MutForceStop
    \/ MutAgain

\* ============================================================= app manager

\* Package names, as pm prints them; "android" is the framework's package.
ComA == <<"com", ".", "a">>
OrgB == <<"org", ".", "b">>
Android == <<"android">>

\* The names of the processes a device may run, in the order ps prints
\* them: the main processes of two packages, a second process of one, a
\* system daemon, and a native program whose path has a dot.
ProcessOrder ==
    <<<<"init">>, <<"/", "bin", "/", "x", ".", "y">>, OrgB,
      ComA \o <<":", "r">>, ComA>>
ProcessNames == {ProcessOrder[i] : i \in DOMAIN ProcessOrder}

\* What pm prints for the packages asked for.
PackageLists == {<<>>, <<ComA>>, <<OrgB, ComA>>, <<Android, ComA, OrgB>>}

\* What the device answers to `monkey -p <package> -c
\* android.intent.category.LAUNCHER 1': the report of the injected event,
\* the abort for a package without a launcher activity, both, nothing, and
\* the same phrases in lower case.
EventsInjected == <<"Events", " ", "injected">>
NoActivitiesFound == <<"No", " ", "activities", " ", "found">>
StartResponses ==
    {<<>>,
     EventsInjected \o <<":", " ", "1", Newline>>,
     <<"**", " ">> \o NoActivitiesFound
        \o <<" ", "to", " ", "run,", " ", "monkey", " ", "aborted.", Newline>>,
     <<"**", " ">> \o NoActivitiesFound \o <<Newline>>
        \o EventsInjected \o <<":", " ", "1", Newline>>,
     <<"**", " ", "no", " ", "activities", " ", "found", Newline>>,
     <<"events", " ", "injected", Newline, "**", " ">> \o NoActivitiesFound
        \o <<Newline>>}

\* ------------------------------------------------------ the device's side

\* The device of an AppManager call: the processes it runs (table), the
\* packages pm lists (installed), whether `ps -A' prints the table or
\* nothing (psA), the command at which the transport is lost (lost), and
\* its answer to monkey (response).
AppWorld(table, installed, psA, lost, response) ==
    [op |-> "app", table |-> table, installed |-> installed, psA |-> psA,
     lost |-> lost, response |-> response]

\* What the device prints for `pm list packages -3' or `-s'.
pm_list(w) ==
    IF w.installed = <<>> THEN <<>>
    ELSE Join([i \in DOMAIN w.installed |-> <<"package:">> \o w.installed[i]],
              Newline) \o <<Newline>>

\* A row of ps: USER PID PPID VSZ RSS WCHAN ADDR S NAME
PsRow(name) ==
    <<"u0_a1", " ", "1234", " ", "1", " ", "1000", " ", "2000", " ", "0", " ",
      "0", " ", "S", " ">> \o name
PsTable(w) ==
    LET running == SelectSeq(ProcessOrder, LAMBDA n : n \in w.table)
    IN Join(<<<<"USER", " ", "PID", " ", "PPID", " ", "VSZ", " ", "RSS", " ",
                "WCHAN", " ", "ADDR", " ", "S", " ", "NAME">>>>
            \o [i \in DOMAIN running |-> PsRow(running[i])], Newline)
       \o <<Newline>>

\* What the device prints for `ps -A' and for `ps'.
ps_A(w) == IF w.psA = "empty" THEN <<>> ELSE PsTable(w)
ps(w) == PsTable(w)

\* What the device prints for `pidof <package>': the pid of a process of
\* that name, or nothing.
pidof(w, package_name) ==
    IF package_name \in w.table THEN <<"1234", Newline>> ELSE <<>>

\* ------------------------------------------------------- the code's side

\* The first column of a row of ps.
process_name_first(parts) == parts[1]

\* appmanager.py:126  process_name = parts[-1]
process_name(parts) == parts[Len(parts)]

\* appmanager.py:122-130  the names kept from the rows of ps: the last
\* column of the rows of at least 9, when it has a dot and does not start
\* with "/"; the first line is the header
running_of(ps_output) ==
    LET lines == SplitOn(ps_output, Newline)
        kept == {i \in 2..Len(lines) :
                    LET parts == Split(lines[i])
                    IN /\ Len(parts) >= 9
                       /\ Contains(process_name(parts), <<".">>)
                       /\ ~StartsWith(process_name(parts), <<"/">>)}
    IN {process_name(Split(lines[i])) : i \in kept}

\* appmanager.py:101-137  _get_running_packages_batch: the set, and the
\* commands it passed to device.shell; set() when a command raises
get_running_packages_batch(w) ==
    IF w.lost = "ps"
    THEN [running |-> {}, commands |-> <<"ps -A">>]
    ELSE IF Strip(ps_A(w)) = <<>>
    THEN [running |-> running_of(Strip(ps(w))),
          commands |-> <<"ps -A", "ps">>]
    ELSE [running |-> running_of(Strip(ps_A(w))), commands |-> <<"ps -A">>]

\* A flag that is set for every package.
is_running_always(package_name, running_packages) == TRUE

\* appmanager.py:78  is_running = package_name in running_packages
is_running_of(package_name, running_packages) ==
    package_name \in running_packages

\* str.title() on the segments package names are made of
Title(segment) ==
    [i \in DOMAIN segment |->
        IF i = 1 /\ segment[i] = "a" THEN "A"
        ELSE IF i = 1 /\ segment[i] = "b" THEN "B"
        ELSE segment[i]]

\* An AppInfo (appmodel.py): its package_name, app_name, is_running and
\* is_system; version, size and is_enabled are left out.  NoApp is the
\* None of _get_app_info_fast.
NoApp ==
    [ok |-> FALSE, package_name |-> <<>>, app_name |-> <<>>,
     is_running |-> FALSE, is_system |-> FALSE]

\* appmanager.py:139-195  _get_app_info_fast: None when dumpsys raises, and
\* when the package name has no second segment (:179, IndexError)
get_app_info_fast(w, package_name, is_running, is_system) ==
    LET segments == SplitOn(package_name, ".")
    IN IF w.lost = "dumpsys" \/ Len(segments) < 2 THEN NoApp
       ELSE [ok |-> TRUE, package_name |-> package_name,
             app_name |-> Title(segments[2]),
             is_running |-> is_running, is_system |-> is_system]

\* appmanager.py:92  apps.sort(key=lambda x: x.app_name.lower())
RECURSIVE InsertApp(_, _)
InsertApp(x, s) ==
    IF s = <<>> THEN <<x>>
    ELSE IF NameLess(x.app_name, Head(s).app_name) THEN <<x>> \o s
    ELSE <<Head(s)>> \o InsertApp(x, Tail(s))
RECURSIVE SortApps(_)
SortApps(apps) ==
    IF apps = <<>> THEN <<>>
    ELSE InsertApp(apps[Len(apps)], SortApps(SubSeq(apps, 1, Len(apps) - 1)))

\* The launch is a success whatever the response.
start_success_always(result) == TRUE

\* appmanager.py:295  success = "Events injected" in result or "No
\* activities found" not in result
start_success(result) ==
    Contains(result, EventsInjected) \/ ~Contains(result, NoActivitiesFound)

\* A call of list_installed_apps ("apps"), is_app_running ("is_running") or
\* start_app ("start"), where get_device_by_serial returns device: the
\* commands it has passed to device.shell, the times it obtained the
\* running set (batches) and the set, the packages still to process, the
\* apps collected, what it returned (result, ret), and for an
\* is_app_running call made after a listing on the same device that
\* obtained the running set (after), that set (batch).
AppCall(op, device, package_name, show_system) ==
    [op |-> op, pc |-> "enter", device |-> device,
     package_name |-> package_name, show_system |-> show_system,
     commands |-> <<>>, batches |-> 0, running |-> {}, package_list |-> <<>>,
     apps |-> <<>>, result |-> <<>>, ret |-> "pending",
     after |-> FALSE, batch |-> {}]

AppInit ==
    \/ /\ world \in {AppWorld(t, i, p, l, <<>>) :
                        t \in SUBSET ProcessNames, i \in PackageLists,
                        p \in {"table", "empty"},
                        l \in {"never", "pm", "ps", "dumpsys", "pidof"}}
       /\ call \in {AppCall("apps", d, <<>>, s) :
                       d \in {NoDevice, Device(UsbSerial)}, s \in BOOLEAN}
    \/ /\ world \in {AppWorld({}, <<>>, "table", l, r) :
                        l \in {"never", "monkey"}, r \in StartResponses}
       /\ call \in {AppCall("start", d, ComA, FALSE) :
                       d \in {NoDevice, Device(UsbSerial)}}

\* appmanager.py:35-38, :241-243, :287-289  no device: return [] / False
AppEnter ==
    /\ call.op \in {"apps", "is_running", "start"}
    /\ call.pc = "enter"
    /\ call' = IF call.device = NoDevice
               THEN [call EXCEPT !.pc = "done", !.ret = "False"]
               ELSE [call EXCEPT !.pc = "shell"]
    /\ UNCHANGED <<regVars, logVars, world>>

\* appmanager.py:44-61  the package list; [] when it is empty, and from the
\* handler at :97-99 when the command raises
AppsPm ==
    /\ call.op = "apps"
    /\ call.pc = "shell"
    /\ LET c == [call EXCEPT !.commands = @ \o <<"pm list packages">>]
           package_output == Strip(pm_list(world))
           lines == SplitOn(package_output, Newline)
           kept == SelectSeq(lines, LAMBDA line : StartsWith(line, <<"package:">>))
       IN call' =
            IF world.lost = "pm" \/ package_output = <<>>
            THEN [c EXCEPT !.pc = "done"]
            ELSE [c EXCEPT
                    !.pc = "batch",
                    !.package_list =
                       [i \in DOMAIN kept |->
                          Strip(SelectSeq(kept[i],
                                          LAMBDA a : a /= "package:"))]]
    /\ UNCHANGED <<regVars, logVars, world>>

\* appmanager.py:66  running_packages = self._get_running_packages_batch(device)
AppsBatch ==
    /\ call.op = "apps"
    /\ call.pc = "batch"
    /\ LET b == get_running_packages_batch(world)
       IN call' = [call EXCEPT !.pc = "loop",
                               !.commands = @ \o b.commands,
                               !.batches = @ + 1,
                               !.running = b.running]
    /\ UNCHANGED <<regVars, logVars, world>>

\* appmanager.py:69-89  one iteration of the loop over the packages
AppsInfo ==
    /\ call.op = "apps"
    /\ call.pc = "loop"
    /\ call.package_list /= <<>>
    /\ LET package_name == Head(call.package_list)
           is_running == is_running_of(package_name, call.running)
           app_info == get_app_info_fast(world, package_name, is_running,
                                         call.show_system)
       IN call' =
            IF package_name = <<>>
            THEN [call EXCEPT !.package_list = Tail(@)]
            ELSE [call EXCEPT
                    !.package_list = Tail(@),
                    !.commands = @ \o <<"dumpsys package">>,
                    !.apps = IF app_info.ok THEN @ \o <<app_info>> ELSE @]
    /\ UNCHANGED <<regVars, logVars, world>>

\* appmanager.py:91-95  the apps are sorted and returned
AppsReturn ==
    /\ call.op = "apps"
    /\ call.pc = "loop"
    /\ call.package_list = <<>>
    /\ call' = [call EXCEPT !.pc = "done", !.result = SortApps(call.apps)]
    /\ UNCHANGED <<regVars, logVars, world>>

\* appmanager.py:228-253  is_app_running: bool(pid and len(pid) > 0) of the
\* stripped answer to pidof; False when the command raises
IsAppRunning ==
    /\ call.op = "is_running"
    /\ call.pc = "shell"
    /\ LET c == [call EXCEPT !.pc = "done", !.commands = @ \o <<"pidof">>]
           pid == Strip(pidof(world, call.package_name))
       IN call' =
            IF world.lost = "pidof" THEN [c EXCEPT !.ret = "False"]
            ELSE IF pid /= <<>> /\ Len(pid) > 0 THEN [c EXCEPT !.ret = "True"]
            ELSE [c EXCEPT !.ret = "False"]
    /\ UNCHANGED <<regVars, logVars, world>>

\* appmanager.py:285-304  start_app: the test of monkey's response; False
\* when the command raises
StartApp ==
    /\ call.op = "start"
    /\ call.pc = "shell"
    /\ LET c == [call EXCEPT !.pc = "done", !.commands = @ \o <<"monkey">>]
           result == world.response
       IN call' =
            IF world.lost = "monkey" THEN [c EXCEPT !.ret = "False"]
            ELSE IF start_success(result) THEN [c EXCEPT !.ret = "True"]
            ELSE [c EXCEPT !.ret = "False"]
    /\ UNCHANGED <<regVars, logVars, world>>

\* After a listing, the state of one of the packages is looked up on the
\* same device (appcontroller.py: refresh_single_app).
AppRefreshSingle ==
    /\ call.op = "apps"
    /\ call.pc = "done"
    /\ call.device /= NoDevice
    /\ \E p \in {ComA, OrgB, Android} :
         call' = [AppCall("is_running", call.device, p, call.show_system)
                    EXCEPT !.after = (call.batches = 1),
                           !.batch = call.running]
    /\ UNCHANGED <<regVars, logVars, world>>

AppNext ==
    \/ AppEnter
    \/ AppsPm
    \/ AppsBatch
    \/ AppsInfo
    \/ AppsReturn
    \/ IsAppRunning
    \/ StartApp
    \/ AppRefreshSingle

\* No FileManager / ProcessManager call is being followed.
NoCall == [op |-> "none"]
CallInit ==
    /\ world = NoCall
    /\ call = NoCall

\* ========================================================= specifications

\* The session registry with the UI thread and the load workers.
Init == RegInit /\ LogInit /\ CallInit
Spec == Init /\ [][Next]_vars

\* The streaming reader, with the adb server up and every device attached.
LogSpecInit ==
    /\ RegInit
    /\ adbUp
    /\ transport = Serials
    /\ LogInit
    /\ CallInit
LogSpec == LogSpecInit /\ [][LogNext]_vars

\* The registry and the streaming reader at rest, while one call of a
\* FileManager or ProcessManager method is followed.
AtRest ==
    /\ RegInit
    /\ adbUp
    /\ transport = Serials
    /\ LogInit

\* One list_directory call, on any of the devices and arguments above.
ListSpecInit == AtRest /\ ListInit
ListSpec == ListSpecInit /\ [][ListNext]_vars

\* One push_file call.
PushSpecInit == AtRest /\ PushInit
PushSpec == PushSpecInit /\ [][PushNext]_vars

\* Two calls of boolean mutations, one after the other.
MutSpecInit == AtRest /\ MutInit
MutSpec == MutSpecInit /\ [][MutNext]_vars

\* One call of list_installed_apps, followed or not by an is_app_running
\* on the same device, or one call of start_app.
AppSpecInit == AtRest /\ AppInit
AppSpec == AppSpecInit /\ [][AppNext]_vars

\* The methods of ADBManager called directly by one thread, with the server
\* up or down, any devices attached and any sessions cached: get_devices
\* twice in a row, disconnect_device on any serial, or connect_device on
\* the address of the network device.
ApiOp(op, s) == Op(op, "api", s, FALSE)
ManagerInit ==
    /\ adbUp \in BOOLEAN
    /\ transport \in SUBSET Serials
    /\ envChanges = 0
    /\ deviceCache \in {[x \in S |-> Device(x)] : S \in SUBSET Serials}
    /\ mainCurrent = NoSerial
    /\ lastSerial = [c \in {Controllers[i] : i \in DOMAIN Controllers} |-> NoSerial]
    /\ shown = {}
    /\ uiEvents = 0
    /\ \E calls \in {<<ApiOp("GD", NoSerial), ApiOp("GD", NoSerial)>>}
                     \cup {<<ApiOp("DISC", s)>> : s \in Serials}
                     \cup {<<ApiOp("CONN", NetSerial)>>} :
          thr = [t \in Threads |->
                   IF t = "ui"
                   THEN [IdleThread EXCEPT !.todo = calls]
                   ELSE IdleThread]
ManagerNext ==
    \/ GdAlive("ui")
    \/ GdList("ui")
    \/ GdInsert("ui")
    \/ GdInfo("ui")
    \/ GdReturn("ui")
    \/ Disconnect("ui")
    \/ Connect("ui")
ManagerSpecInit == ManagerInit /\ LogInit /\ CallInit
ManagerSpec == ManagerSpecInit /\ [][ManagerNext]_vars

\* The UI thread is never blocked for good in stop_streaming: wait(2000)
\* returns at the timeout at the latest, terminate() ends the thread and
\* wait() then returns.
LogFairSpec == LogSpec /\ WF_vars(StopJoin) /\ WF_vars(Resume)

\* ======================================================= session registry

\* C1: after a get_devices call that completed successfully, the keys of the
\* session cache are exactly the serials the transport reported in that
\* call (every serial cached earlier and not reported has been purged).
C1_CacheEqualsReported ==
    \A t \in Threads : thr[t].gd.ok => thr[t].gd.keys = thr[t].gd.serials

\* C2: get_device_by_serial, once it has found the serial in the cache,
\* returns the cached session with no discovery; otherwise, after exactly one
\* discovery, it returns what exactly one further lookup gives: the session
\* or not-found.
C2_HitOrOneDiscovery ==
    [][\A t \in Threads :
         /\ ResRead(t) => /\ thr'[t].pc = "res_ret"
                          /\ thr'[t].nDisc = 0
                          /\ thr'[t].handle = deviceCache[HeadOp(t).s]
         /\ ResGet(t) => /\ thr'[t].pc = "res_ret"
                         /\ thr'[t].nDisc = 1
                         /\ thr'[t].handle = CacheGet(deviceCache, HeadOp(t).s)
      ]_vars

\* C3: an operation never issues its shell command on a session that has been
\* evicted from the cache since the operation obtained it.
C3_NoShellOnEvicted ==
    [][\A t \in Threads :
         ShellIssue(t) => thr[t].handle.serial \in DOMAIN deviceCache]_vars

\* C4: no interleaving of discovery, disconnect and resolution makes a cache
\* operation raise: get_device_by_serial never sees a serial as present and
\* then fails to read it.
C4_NoCacheOperationRaises ==
    \A t \in Threads : ~thr[t].raised

\* C5: two shell commands are never in flight on the same device at once.
C5_OneShellPerDevice ==
    \A t1, t2 \in Threads :
        t1 /= t2 /\ thr[t1].inflight /= NoSerial
            => thr[t1].inflight /= thr[t2].inflight

\* ======================================================== streaming reader

\* The log records delivered for stream g, and the lines of stream g that
\* on_log_received was given.
DeliveredOf(g) == SelectSeq(delivered, LAMBDA d : d.gen = g)
ReceivedOf(g) == SelectSeq(hist.received, LAMBDA m : m.gen = g)
QueuedLog(g) == SelectSeq(sigQueue, LAMBDA m : m.gen = g /\ m.sig = "log")
LinesOf(msgs) == [i \in DOMAIN msgs |-> msgs[i].line]
IsPrefix(s, u) == Len(s) <= Len(u) /\ s = SubSeq(u, 1, Len(s))

\* C6: once stop_streaming of an active stream has returned, no further log
\* record of that stream is delivered to the consumer.
C6_NoRecordAfterStop ==
    [][delivered' /= delivered => Head(sigQueue).gen \notin hist.stopped]_vars

\* C7: at most one stream worker runs at any time.
C7_OneStreamAtATime ==
    Cardinality({g \in Gens : StreamRunning(g)}) <= 1

\* start_streaming has ended the running worker by force and is about to
\* start the next one.
C7_Witness ==
    /\ uiPc = "resume"
    /\ uiCont.h = "start"
    /\ \E g \in Gens : wpc[g] = "terminated"

\* C8: a stop request on an active stream always eventually leaves no worker
\* and no running reader thread, whatever the producer does.
C8_StopReachesIdle ==
    \A g \in Gens :
        (uiPc = "stopping" /\ streamWorker = g)
            ~> (streamWorker = 0 /\ ~StreamRunning(g))

\* A stop is requested while the reader is blocked in readline() and adb has
\* printed nothing.
C8_Witness ==
    /\ uiPc = "stopping"
    /\ wpc[streamWorker] = "readline"
    /\ pipe[streamWorker] = <<>>
    /\ proc[streamWorker] = "running"
    /\ hist.produced = 0

\* C9: stop_streaming with no stream worker raises nothing and changes
\* nothing but the status message, which is what a stop leaves (so a second
\* stop has the effect of one); and the stop flag of earlier stops is never
\* seen by a later stream: a worker nobody asked to stop leaves its read loop
\* at end of file only.
C9_StopIdempotent ==
    /\ [][(LogStop /\ streamWorker = 0) =>
            /\ uiPc' = "resume"
            /\ statusMsg' = "Logcat streaming stopped"
            /\ ~hist'.uiRaised
            /\ UNCHANGED <<logSerial, streamWorker, stopFlag, wpc, proc, pipe,
                           held, sigQueue, delivered>>]_vars
    /\ [](~hist.uiRaised)
    /\ [](\A g \in Gens \ hist.stopReq :
             /\ wpc[g] = "loop" => ~stopFlag
             /\ wpc[g] = "cleanup" => proc[g] = "exited" /\ pipe[g] = <<>>)

\* After a stop of an active stream and a stop with none, a later stream has
\* read a line.
C9_Witness ==
    /\ hist.idleStop
    /\ hist.stopped /= {}
    /\ \E g \in Gens \ hist.stopReq : wpc[g] = "callback"

\* C10, as stated: every line read from a stream is delivered to the
\* consumer in the order read (checked when the reader has ended and none of
\* its lines is still queued).
C10_EveryLineDelivered ==
    \A g \in Gens :
        (wpc[g] \in Ended /\ QueuedLog(g) = <<>>)
            => Len(DeliveredOf(g)) = Len(hist.read[g])

\* C10, amended: every line read is handed to the callback in the order
\* read, but for the line a terminated reader was holding; the lines
\* on_log_received is given are a prefix of those; and of them every line
\* that is not blank is appended, in order, as a structured record when it
\* has the shape of the pattern and as the raw line otherwise.
C10_NonBlankDeliveredInOrder ==
    \A g \in Gens :
        /\ hist.read[g] = hist.emitted[g] \o held[g]
        /\ IsPrefix(LinesOf(ReceivedOf(g)), hist.emitted[g])
        /\ LET kept == SelectSeq(LinesOf(ReceivedOf(g)),
                                 LAMBDA l : l /= BlankLine)
           IN /\ Len(DeliveredOf(g)) = Len(kept)
              /\ \A i \in DOMAIN kept :
                   DeliveredOf(g)[i].rec =
                     IF kept[i] = StructuredLine
                     THEN EntryRecord([timestamp |-> <<"01-27", "13:30:45.123">>,
                                       pid |-> 1234, tid |-> 5678,
                                       level |-> "I", tag |-> <<"Tag">>,
                                       message |-> <<"Message">>])
                     ELSE RawRecord(kept[i])

\* A structured record and a raw line have been appended.
C10_Witness ==
    /\ \E i \in DOMAIN delivered : delivered[i].rec.kind = "entry"
    /\ \E i \in DOMAIN delivered : delivered[i].rec.kind = "raw"


\* ---------------------------------------------------------- file listing

\* C11: the path of every entry list_directory(serial, p, show_hidden)
\* returns is p, backslashes replaced by "/", joined to the entry's name; it
\* is never a path below the resolved actual path, however many links were
\* followed.
C11_PathsFromDisplayPath ==
    (call.op = "list" /\ call.pc = "done") =>
        \A i \in DOMAIN call.result :
            LET p == Replace(call.p, Backslash, "/")
                name == call.result[i].name
            IN /\ call.result[i].path =
                     IF EndsWith(p, <<"/">>)
                     THEN p \o name
                     ELSE p \o <<"/">> \o name
               /\ call.actual /= p =>
                     ~StartsWith(call.result[i].path, call.actual \o <<"/">>)

\* Entries were returned for a directory reached through three links.
C11_Witness ==
    /\ call.op = "list"
    /\ call.pc = "done"
    /\ call.hops = 3
    /\ call.actual = PathOf(4)
    /\ call.p = Replace(PathOf(1), "/", Backslash)
    /\ Len(call.result) >= 3

C20_OneBadLineKeepsTheRest ==
    (/\ call.op = "list"
     /\ call.pc = "done"
     /\ call.device /= NoDevice
     /\ ~call.caught
     /\ Cardinality({j \in DOMAIN world.dir : world.dir[j].kind = "text"}) = 1) =>
        \A j \in DOMAIN world.dir :
            (/\ world.dir[j].kind = "row"
             /\ call.show_hidden \/ ~StartsWith(world.dir[j].name, <<".">>)) =>
                \E i \in DOMAIN call.result :
                    call.result[i].name = world.dir[j].name

\* -------------------------------------------------------- manager methods

\* C13: a get_devices call entered while the server does not answer (no
\* client, or the version handshake raises) returns at once with the empty
\* list, without an exception, without having asked the transport for its
\* devices, and leaves the cache as it was.
C13_DeadServerNoDiscovery ==
    [][\A t \in Threads :
         (AtCall(t, "GD") /\ ~adbUp /\ GdAlive(t)) =>
             /\ thr'[t].pc = "ready"
             /\ thr'[t].todo = Tail(thr[t].todo)
             /\ thr'[t].gd.serials = {}
             /\ ~thr'[t].gd.queried
             /\ ~thr'[t].raised
             /\ deviceCache' = deviceCache]_vars

\* The first of two get_devices calls has returned with the server away,
\* two devices attached and two sessions cached.
C13_Witness ==
    /\ ~adbUp
    /\ thr["ui"].pc = "ready"
    /\ thr["ui"].todo = <<ApiOp("GD", NoSerial)>>
    /\ thr["ui"].gd = NoResult
    /\ transport = Serials
    /\ DOMAIN deviceCache = Serials

\* C14: disconnect_device on a USB serial (one without ":") returns False,
\* does not call remote_disconnect, and leaves the cache (and the transport)
\* as they were.
C14_UsbDisconnectRejected ==
    [][\A t \in Threads :
         (AtCall(t, "DISC") /\ HeadOp(t).s = UsbSerial /\ Disconnect(t)) =>
             /\ ~thr'[t].discOk
             /\ ~thr'[t].discCalled
             /\ ~thr'[t].raised
             /\ deviceCache' = deviceCache
             /\ transport' = transport]_vars

\* disconnect_device(R5) has returned, with the server up and R5 attached
\* and cached.
C14_Witness ==
    /\ adbUp
    /\ thr["ui"].todo = <<>>
    /\ thr["ui"].gd = NoResult
    /\ ~thr["ui"].discOk
    /\ ~thr["ui"].discCalled
    /\ UsbSerial \in transport
    /\ UsbSerial \in DOMAIN deviceCache

\* C15: of two get_devices calls in a row with the transport's device list
\* unchanged, the second leaves the cache with the serials it held when the
\* first returned: it adds none and evicts none.
C15_SecondDiscoveryKeepsKeys ==
    [][thr["ui"].todo = <<ApiOp("GD", NoSerial)>> =>
          DOMAIN deviceCache' = DOMAIN deviceCache]_vars

\* The second call has returned the two devices attached.
C15_Witness ==
    /\ thr["ui"].todo = <<>>
    /\ thr["ui"].gd.ok
    /\ thr["ui"].gd.serials = Serials
    /\ thr["ui"].gd.keys = Serials

\* ------------------------------------------------------------ mutations

ResultOf(outcome) == outcome.ret

\* C16: a kill_process or force_kill_process call that succeeded only
\* through the force-stop fallback returns a result that differs from the
\* result of a call of the same method that killed the process itself.
C16_FallbackDistinguishable ==
    (/\ call.op = "mut"
     /\ call.pc = "done"
     /\ call.via = "fallback"
     /\ call.prev.via = "clean"
     /\ call.prev.method = call.method) =>
        ResultOf(call) /= ResultOf(call.prev)

\* C18: whatever the mutation (delete, rename, mkdir, kill, force-kill), a
\* response containing "No such file", "Permission denied", "No such
\* process" or "Operation not permitted" is taken for a rejection: the call
\* does not return as a success of the command.
C18_OneRejectionVocabulary ==
    (/\ call.op = "mut"
     /\ call.pc = "done"
     /\ call.device /= NoDevice
     /\ ~world.lost
     /\ \/ Contains(world.response, NoSuchFile)
        \/ Contains(world.response, PermissionDenied)
        \/ Contains(world.response, NoSuchProcess)
        \/ Contains(world.response, OperationNotPermitted)) =>
        call.via /= "clean"

\* C19: two failed calls whose causes differ (not found, permission denied,
\* transport lost) return results that differ.
C19_FailuresTellCauses ==
    (/\ call.op = "mut"
     /\ call.pc = "done"
     /\ call.ret = "False"
     /\ call.prev.ret = "False"
     /\ {call.cause, call.prev.cause}
           \subseteq {"not-found", "permission-denied", "transport-lost"}
     /\ call.cause /= call.prev.cause) =>
        ResultOf(call) /= ResultOf(call.prev)

\* The rows of the listed directory whose permissions start with the atom k.
RowsOf(k) ==
    {j \in DOMAIN world.dir :
        world.dir[j].kind = "row" /\ StartsWith(world.dir[j].fields[1], <<k>>)}

\* The entries list_directory returned under the name of row j.
EntriesOf(j) ==
    {i \in DOMAIN call.result : call.result[i].name = world.dir[j].name}

LongRows ==
    {j \in DOMAIN world.dir :
        world.dir[j].kind = "row" /\ Len(world.dir[j].fields) >= 8}

\* What _parse_ls_line makes of row j in the call being followed.
ParsedRow(j) ==
    parse_ls_line(world, EntryText(world.dir[j]), call.display, call.actual)

\* The text of row j from the 8th field on.
TextFromEighth(j) ==
    Join(SubSeq(world.dir[j].fields, 8, Len(world.dir[j].fields)), " ")

\* Row j is one list_directory returns an entry for: the device answers,
\* no line of the output is an error message, the row is not hidden from
\* the call.
Listed(j) ==
    /\ call.device /= NoDevice
    /\ world.lost = "never"
    /\ \A k \in DOMAIN world.dir : world.dir[k].kind = "row"
    /\ call.show_hidden \/ ~StartsWith(world.dir[j].name, <<".">>)

\* list_directory went through the lines of the output: the device answered
\* the commands before, and no line made it return early.
LinesParsed ==
    /\ call.op = "list"
    /\ call.pc = "done"
    /\ call.device /= NoDevice
    /\ world.lost \in {"never", "probe"}
    /\ \A k \in DOMAIN world.dir : world.dir[k] \notin {DeniedLine, NoSuchLine}

\* C24 as stated: a row with at least 8 fields parses to an entry whose
\* size is the integer of the 5th field, whose name is the text from the
\* 8th field on and whose path is <base>/<name>.
C24_RowParses ==
    LinesParsed =>
        \A j \in LongRows :
            /\ ParsedRow(j).ok
            /\ isdigit(world.dir[j].fields[5])
            /\ ParsedRow(j).size = int_of(world.dir[j].fields[5])
            /\ ParsedRow(j).name = TextFromEighth(j)
            /\ ParsedRow(j).path = call.display \o <<"/">> \o ParsedRow(j).name

\* C24, amended: a row with at least 8 fields that is not a link row, or
\* whose `test -d' is answered, parses to an entry whose size is the
\* integer of the 5th field when that field is all digits and 0 otherwise,
\* whose name is the text from the 8th field on, cut before the first "->"
\* and stripped when it has one, and whose path is the base joined to the
\* name by one "/" (none added to a base that ends with one); the row
\* `-rw-rw---- 1 u0_a123 sdcard_rw 2048 2024-01-01 10:00 notes.txt' gives
\* size 2048, not a directory, path the base joined to notes.txt; and
\* list_directory returns that entry for every row it lists.
C24_RowParsesAmended ==
    LinesParsed =>
        \A j \in LongRows :
            (world.lost /= "probe"
                \/ ~StartsWith(world.dir[j].fields[1], <<"l">>)) =>
                LET item == ParsedRow(j)
                    text == TextFromEighth(j)
                    base == call.display
                IN /\ item.ok
                   /\ item.size = IF isdigit(world.dir[j].fields[5])
                                  THEN int_of(world.dir[j].fields[5])
                                  ELSE 0
                   /\ item.name = IF Contains(text, <<"->">>)
                                  THEN Strip(SplitOn(text, "->")[1])
                                  ELSE text
                   /\ item.path = IF EndsWith(base, <<"/">>)
                                  THEN base \o item.name
                                  ELSE base \o <<"/">> \o item.name
                   /\ world.dir[j] = NotesRow =>
                         /\ item.size = 2048
                         /\ ~item.is_directory
                         /\ item.name = <<"notes.txt">>
                   /\ Listed(j) =>
                         \E i \in DOMAIN call.result : call.result[i] = item

\* The row of notes.txt was listed below a base that ends with "/", next to
\* a link row, and its entry has size 2048 and the base joined to the name
\* as its path.
C24_Witness ==
    /\ LinesParsed
    /\ call.display = PathOf(1) \o <<"/">>
    /\ \E j \in LongRows : world.dir[j] = NotesRow /\ Listed(j)
    /\ \E j \in LongRows : StartsWith(world.dir[j].fields[1], <<"l">>)
    /\ \E i \in DOMAIN call.result :
          /\ call.result[i].size = 2048
          /\ call.result[i].path = PathOf(1) \o <<"/", "notes.txt">>

\* C28: for an acyclic chain of fewer than 10 links starting at the path
\* given, with the device answering, _resolve_symlink returns the path the
\* last link points to, which is no link, after one query per link and one
\* for that path, relative targets being resolved against the directory of
\* the link; a path that is no link is returned unchanged after a single
\* query.
C28_ChainResolved ==
    (/\ call.op = "list"
     /\ call.pc \in {"ls", "parse", "done"}
     /\ call.device /= NoDevice
     /\ world.lost /= "resolve"
     /\ world.back = 0
     /\ world.links < 10) =>
        IF LinkIndex(world, call.display) /= {}
        THEN /\ call.actual = PathOf(world.links + 1)
             /\ LinkIndex(world, call.actual) = {}
             /\ call.hops = world.links
             /\ call.queries = world.links + 1
        ELSE /\ call.actual = call.display
             /\ call.hops = 0
             /\ call.queries = 1

\* A chain of 9 links with relative targets was resolved in 10 queries.
C28_Witness ==
    /\ call.op = "list"
    /\ call.pc = "done"
    /\ world.lost = "never"
    /\ world.back = 0
    /\ world.links = 9
    /\ world.rel
    /\ call.display = PathOf(1)
    /\ call.actual = PathOf(10)
    /\ call.queries = 10

\* The name on the second line of what the device answers to ps, <<>> when
\* there is no second line.
PsName ==
    LET lines == SplitOn(Strip(world.ps), Newline)
    IN IF Len(lines) > 1 THEN Strip(lines[2]) ELSE <<>>

\* A kill_process or force_kill_process call returned whose kill command
\* was answered by the device.
KillAnswered ==
    /\ call.op = "mut"
    /\ call.pc = "done"
    /\ call.method \in {"kill_process", "force_kill_process"}
    /\ call.device /= NoDevice
    /\ ~world.lost

\* C27: when the kill command is answered with "Permission denied" or
\* "Operation not permitted", the command the operation issues next asks ps
\* for the name of the process; am force-stop is issued, right after it,
\* only if ps answered with a name that contains a dot, and otherwise
\* nothing more is issued and the operation returns False.  When the answer
\* contains "No such process" the operation returns False and the kill
\* command is the only command it issued.
C27_FallbackOnlyForPackages ==
    KillAnswered =>
        /\ Contains(world.response, NoSuchProcess) =>
              /\ call.ret = "False"
              /\ call.commands = <<"command">>
        /\ (/\ ~Contains(world.response, NoSuchProcess)
            /\ \/ Contains(world.response, PermissionDenied)
               \/ Contains(world.response, OperationNotPermitted)) =>
              /\ Len(call.commands) >= 2
              /\ call.commands[1] = "command"
              /\ call.commands[2] = "ps"
              /\ IF world.fallbackLost /= "ps" /\ Contains(PsName, <<".">>)
                 THEN /\ Len(call.commands) >= 3
                      /\ call.commands[3] = "am force-stop"
                      /\ call.package = PsName
                 ELSE /\ call.commands = <<"command", "ps">>
                      /\ call.ret = "False"

\* A kill was refused, ps named a system process, and the operation failed
\* after the two commands.
C27_Witness ==
    /\ KillAnswered
    /\ Contains(world.response, OperationNotPermitted)
    /\ PsName = <<"init">>
    /\ world.fallbackLost = "never"
    /\ call.commands = <<"command", "ps">>
    /\ call.ret = "False"

\* C26: connect_device returns True exactly when the server answers the
\* liveness check and remote_connect returns a truthy result; with the
\* server down it returns False without calling remote_connect, and when
\* remote_connect raises it returns False; it never raises, and it leaves
\* the session cache as it was.
C26_ConnectReportsTransport ==
    [][\A t \in Threads :
         (AtCall(t, "CONN") /\ Connect(t)) =>
             /\ thr'[t].connOk <=> (adbUp /\ thr'[t].connResult = "truthy")
             /\ ~adbUp => (thr'[t].connResult = "none" /\ ~thr'[t].connOk)
             /\ thr'[t].connResult = "raises" => ~thr'[t].connOk
             /\ adbUp => thr'[t].connResult \in ConnectOutcomes
             /\ ~thr'[t].raised
             /\ deviceCache' = deviceCache]_vars

\* connect_device has returned False for a falsy remote_connect, with the
\* server up and a session cached.
C26_Witness ==
    /\ adbUp
    /\ thr["ui"].todo = <<>>
    /\ thr["ui"].connResult = "falsy"
    /\ ~thr["ui"].connOk
    /\ deviceCache /= <<>>

\* C21: list_installed_apps passes no pidof command to the device, however
\* many packages are installed; it obtains the running set at most once,
\* and the running flag of every app it returns tells whether the app's
\* package name is in that set.
C21_FlagsFromOneBatch ==
    (call.op = "apps" /\ call.pc = "done") =>
        /\ \A i \in DOMAIN call.commands : call.commands[i] /= "pidof"
        /\ call.batches <= 1
        /\ Cardinality({i \in DOMAIN call.commands :
                           call.commands[i] = "ps -A"}) = call.batches
        /\ \A i \in DOMAIN call.result :
              call.result[i].is_running
                 <=> (call.result[i].package_name \in call.running)

\* A listing of three packages returned two apps, one running and one not.
C21_Witness ==
    /\ call.op = "apps"
    /\ call.pc = "done"
    /\ Len(world.installed) = 3
    /\ call.batches = 1
    /\ Len(call.result) = 2
    /\ \E i \in DOMAIN call.result : call.result[i].is_running
    /\ \E i \in DOMAIN call.result : ~call.result[i].is_running

\* C22: when is_app_running reports a package running on a device, one
\* that has a process of that name in its process table, the running set
\* that _get_running_packages_batch obtained from the same device, with the
\* device answering ps, holds that package.
C22_BatchHasNoFalseNegative ==
    (/\ call.op = "is_running"
     /\ call.pc = "done"
     /\ call.after
     /\ world.lost /= "ps") =>
        ((call.ret = "True" /\ call.package_name \in world.table) =>
            call.package_name \in call.batch)

\* is_app_running reported a package running that the running set, taken
\* from `ps' after `ps -A' printed nothing, holds.
C22_Witness ==
    /\ call.op = "is_running"
    /\ call.pc = "done"
    /\ call.after
    /\ world.lost = "never"
    /\ world.psA = "empty"
    /\ call.ret = "True"
    /\ call.package_name = ComA
    /\ call.batch = {ComA, OrgB}

\* start_app passed the launch command to a device.
Launched ==
    /\ call.op = "start"
    /\ call.pc = "done"
    /\ call.device /= NoDevice

\* C25 as stated: start_app reports success exactly when the response
\* contains "events injected" or does not contain "no activities found",
\* and failure when the shell call raises.
C25_StartReportsLaunch ==
    Launched =>
        IF world.lost = "monkey" THEN call.ret = "False"
        ELSE call.ret = "True"
                <=> \/ Contains(world.response, <<"events", " ", "injected">>)
                    \/ ~Contains(world.response,
                                 <<"no", " ", "activities", " ", "found">>)

\* C25, amended: start_app reports success exactly when the response
\* contains "Events injected" or does not contain "No activities found",
\* both in exactly this spelling, and failure when the shell call raises;
\* without a device it reports failure and launches nothing.
C25_StartReportsLaunchAsSpelled ==
    /\ Launched =>
          /\ call.commands = <<"monkey">>
          /\ IF world.lost = "monkey" THEN call.ret = "False"
             ELSE call.ret = "True"
                     <=> \/ Contains(world.response,
                                     <<"Events", " ", "injected">>)
                         \/ ~Contains(world.response,
                                      <<"No", " ", "activities", " ", "found">>)
    /\ (call.op = "start" /\ call.pc = "done" /\ call.device = NoDevice) =>
          (call.ret = "False" /\ call.commands = <<>>)

\* start_app reported failure for monkey's abort message.
C25_Witness ==
    /\ Launched
    /\ world.lost = "never"
    /\ Contains(world.response, NoActivitiesFound)
    /\ ~Contains(world.response, EventsInjected)
    /\ call.ret = "False"

\* C29: a stop request is never lost: whenever a worker that was asked to
\* stop, and has not been joined yet, is at the test of its read loop, the
\* stop flag is set, so that the loop ends there, having read at most the
\* one line that was being read when the request was made.
C29_StopRequestNeverLost ==
    \A g \in Gens :
        (g \in hist.stopReq \ hist.stopped /\ wpc[g] = "loop") => stopFlag

\* C30: a stream that has ended, by end of file, by the stop flag or by the
\* forced termination of its worker, has no adb logcat subprocess left
\* running.
C30_NoReaderOutlivesItsStream ==
    \A g \in Gens : wpc[g] \in Ended => proc[g] /= "running"
====
